---- MODULE Spec2Model ----
(***************************************************************************)
(* Booking state machine and slot-allocation engine of zapis_bot.          *)
(*                                                                         *)
(* The durable store is the SQLite database of database.py (tables users,  *)
(* slots, bookings, reminders); the volatile state is the APScheduler job  *)
(* store, the conversations (FSMContext) and the wall clock; delivered     *)
(* counts the reminder messages sent.  The specifications:                 *)
(*   Spec           every handler runs to completion before the next       *)
(*   SpecInventory  Spec with whole admin messages of times                *)
(*   SpecNotify     Spec with notification sends that raise                *)
(*   SpecConc       book_slot and cancel_booking of several updates        *)
(*                  interleave at their await points (aiogram handles      *)
(*                  updates as tasks); SpecPerClient, SpecCancelRace       *)
(*   SpecLifecycle  handlers, scheduler jobs, stop and restart interleave  *)
(*   SpecCommit     the write statements and commits of book_slot and      *)
(*                  cancel_booking one by one, with stop and restart       *)
(*   SpecCalendar   get_available_days over every slots table and date     *)
(*   SpecDialog     the router and the conversations, over the store       *)
(***************************************************************************)
EXTENDS Integers, Sequences, FiniteSets, TLC

\* ------------------------------------------------------------------ bounds
NumClients == 2
MaxSlots == 2
MaxBookings == 2
MaxDay == 2
MaxTicks == 2
NumTasks == 2
MaxEntries == 2

\* ------------------------------------------------------- program constants
HoursPerDay == 24
ReminderLeadHours == 24

\* ---------------------------------------------------------------- helpers
\* Python's None for an integer id (AUTOINCREMENT ids start at 1)
None == 0
\* Python's None for a tuple or a job id
NoneT == <<>>

Min(S) == CHOOSE x \in S : \A y \in S : x <= y

\* -------------------------------------------------------------- value sets
Clients == 1..NumClients
Dates == 1..MaxDay
\* times of day (hours) an admin enters; one value keeps the clock grid small
Times == {10}
Names == {"Ann"}
Phones == {"555"}
NULL == "NULL"
\* the clock starts at 10:00 of day 0 and advances in steps of TickHours
StartHour == Min(Times)
TickHours == HoursPerDay \div 2
Tasks == 1..NumTasks

VARIABLES users, slots, bookings, reminders, jobs, now, ret, tasks, main, fsm,
          delivered

vars ==
    <<users, slots, bookings, reminders, jobs, now, ret, tasks, main, fsm,
      delivered>>

\* ------------------------------------------------------------- users table
user_ids(U, tg_id) == {u \in DOMAIN U : U[u].tg_id = tg_id}

get_or_create_user(U, tg_id) ==
    IF user_ids(U, tg_id) # {}
    THEN U
    ELSE Append(U, [tg_id |-> tg_id, name |-> NULL, phone |-> NULL])

update_user_info(U, tg_id, name, phone) ==
    [u \in DOMAIN U |->
        IF U[u].tg_id = tg_id
        THEN [U[u] EXCEPT !.name = name, !.phone = phone]
        ELSE U[u]]

\* ------------------------------------------------------------- slots table
new_slot(d, t) == [date |-> d, time |-> t, is_available |-> 1]

\* faulty variant of close_day_slots: the flag of the day's slots is flipped
close_day_slots_flipped(S, d) ==
    [s \in DOMAIN S |->
        IF S[s].date = d
        THEN [S[s] EXCEPT !.is_available = 1 - S[s].is_available]
        ELSE S[s]]

\* faulty variant of close_day_slots: the UPDATE lacks WHERE date = ?
close_day_slots_every_date(S, d) ==
    [s \in DOMAIN S |-> [S[s] EXCEPT !.is_available = 0]]

close_day_slots(S, d) ==
    [s \in DOMAIN S |->
        IF S[s].date = d THEN [S[s] EXCEPT !.is_available = 0] ELSE S[s]]

get_slot(S, slot_id) == IF slot_id \in DOMAIN S THEN <<S[slot_id]>> ELSE NoneT

\* ---------------------------------------------------------- admin_add_times
\* the entries of the admin's message after replace(" ", "") and split(","),
\* as strings of characters: "10:00", "24:00", "10:60", "bad"
Entries ==
    {<<"1", "0", ":", "0", "0">>, <<"2", "4", ":", "0", "0">>,
     <<"1", "0", ":", "6", "0">>, <<"b", "a", "d">>}

Digits == <<"0", "1", "2", "3", "4", "5", "6", "7", "8", "9">>

is_digit(c) == \E i \in DOMAIN Digits : Digits[i] = c

digit_value(c) == (CHOOSE i \in DOMAIN Digits : Digits[i] = c) - 1

\* a field of strptime: one or two digits
is_field(f) == Len(f) \in 1..2 /\ \A i \in DOMAIN f : is_digit(f[i])

field_value(f) ==
    IF Len(f) = 1 THEN digit_value(f[1])
    ELSE 10 * digit_value(f[1]) + digit_value(f[2])

\* faulty variant of parse_time: the hour and the minute are not range-checked
parse_time_unranged(p) ==
    LET colons == {i \in DOMAIN p : p[i] = ":"}
    IN  IF Cardinality(colons) # 1
        THEN NoneT
        ELSE LET c == CHOOSE i \in colons : TRUE
                 hh == SubSeq(p, 1, c - 1)
                 mm == SubSeq(p, c + 1, Len(p))
             IN  IF is_field(hh) /\ is_field(mm)
                 THEN <<field_value(hh), field_value(mm)>>
                 ELSE NoneT

\* datetime.strptime(p, "%H:%M").time(): <<hour, minute>>, or NoneT where
\* strptime raises ValueError
parse_time(p) ==
    LET colons == {i \in DOMAIN p : p[i] = ":"}
    IN  IF Cardinality(colons) # 1
        THEN NoneT
        ELSE LET c == CHOOSE i \in colons : TRUE
                 hh == SubSeq(p, 1, c - 1)
                 mm == SubSeq(p, c + 1, Len(p))
             IN  IF /\ is_field(hh) /\ is_field(mm)
                    /\ field_value(hh) <= 23 /\ field_value(mm) <= 59
                 THEN <<field_value(hh), field_value(mm)>>
                 ELSE NoneT

\* the time column of a slot is kept in hours: the entries above that parse
\* are on the full hour
slot_time(hm) == hm[1]

\* the loop of admin_add_times over parts: the slots table afterwards, the
\* count of slots created and the errors caught
RECURSIVE add_times(_, _, _, _, _)
add_times(S, d, parts, created, errors) ==
    IF parts = <<>>
    THEN [slots |-> S, created |-> created, errors |-> errors]
    ELSE IF parse_time(Head(parts)) = NoneT
         THEN add_times(S, d, Tail(parts), created,
                        errors \cup {"ValueError"})
         ELSE add_times(Append(S, new_slot(d, slot_time(parse_time(Head(parts))))),
                        d, Tail(parts), created + 1, errors)

admin_add_times_outcome(S, d, parts) == add_times(S, d, parts, 0, {})

\* the messages an admin can send: up to MaxEntries entries
Parts == UNION {[1..n -> Entries] : n \in 0..MaxEntries}

\* ---------------------------------------------------------------- book_slot
\* the ids of the active bookings of the client (bookings JOIN users)
\* faulty variant of active_booking_ids: the status of the booking is not
\* looked at
active_booking_ids_any_status(U, B, tg_id) ==
    {b \in DOMAIN B : B[b].user_id \in user_ids(U, tg_id)}

active_booking_ids(U, B, tg_id) ==
    {b \in DOMAIN B :
        /\ B[b].status = "active"
        /\ B[b].user_id \in user_ids(U, tg_id)}

slot_bookable(S, slot_id) ==
    slot_id \in DOMAIN S /\ S[slot_id].is_available # 0

\* faulty variant of take_slot: the UPDATE of the slot is left out
take_slot_skipped(S, slot_id) == S

take_slot(S, slot_id) == [S EXCEPT ![slot_id].is_available = 0]

\* faulty variant of insert_booking: the INSERT binds user_id and slot_id swapped
insert_booking_swapped(B, user_id, slot_id) ==
    Append(B, [user_id |-> slot_id, slot_id |-> user_id, status |-> "active"])

\* faulty variant of insert_booking: a cancelled row of the same client and
\* slot is made active again in place of a new row
insert_booking_reuses_row(B, user_id, slot_id) ==
    LET old == {b \in DOMAIN B : /\ B[b].user_id = user_id
                                 /\ B[b].slot_id = slot_id
                                 /\ B[b].status = "cancelled"}
    IN  IF old = {}
        THEN Append(B, [user_id |-> user_id, slot_id |-> slot_id,
                        status |-> "active"])
        ELSE [B EXCEPT ![Min(old)].status = "active"]

insert_booking(B, user_id, slot_id) ==
    Append(B, [user_id |-> user_id, slot_id |-> slot_id, status |-> "active"])

\* the rows the closing SELECT of book_slot can fetch
booked_ids(B, user_id, slot_id) ==
    {b \in DOMAIN B :
        /\ B[b].user_id = user_id
        /\ B[b].slot_id = slot_id
        /\ B[b].status = "active"}

\* faulty variant of book_slot: the slot is taken before the client's active
\* reservation is looked up
book_slot_takes_first(U, S, B, tg_id, slot_id) ==
    LET S0 == IF slot_bookable(S, slot_id) THEN take_slot(S, slot_id) ELSE S
    IN  IF active_booking_ids(U, B, tg_id) # {}
        THEN [users |-> U, slots |-> S0, bookings |-> B, ids |-> {None}]
        ELSE LET U1 == get_or_create_user(U, tg_id)
                 uid == Min(user_ids(U1, tg_id))
             IN  IF ~slot_bookable(S, slot_id)
                 THEN [users |-> U1, slots |-> S, bookings |-> B, ids |-> {None}]
                 ELSE LET B1 == insert_booking(B, uid, slot_id)
                      IN  [users |-> U1, slots |-> S0, bookings |-> B1,
                           ids |-> booked_ids(B1, uid, slot_id)]

\* book_slot run without interleaving: the tables afterwards and the ids it
\* can return ({None} when it returns None)
book_slot(U, S, B, tg_id, slot_id) ==
    IF active_booking_ids(U, B, tg_id) # {}
    THEN [users |-> U, slots |-> S, bookings |-> B, ids |-> {None}]
    ELSE LET U1 == get_or_create_user(U, tg_id)
             uid == Min(user_ids(U1, tg_id))
         IN  IF ~slot_bookable(S, slot_id)
             THEN [users |-> U1, slots |-> S, bookings |-> B, ids |-> {None}]
             ELSE LET B1 == insert_booking(B, uid, slot_id)
                  IN  [users |-> U1, slots |-> take_slot(S, slot_id),
                       bookings |-> B1, ids |-> booked_ids(B1, uid, slot_id)]

\* ----------------------------------------------------------- cancel_booking
\* faulty variant of booking_is_active: the SELECT lacks AND status = 'active'
booking_exists(B, booking_id) == booking_id \in DOMAIN B

booking_is_active(B, booking_id) ==
    booking_id \in DOMAIN B /\ B[booking_id].status = "active"

mark_cancelled(B, booking_id) == [B EXCEPT ![booking_id].status = "cancelled"]

release_slot(S, slot_id) ==
    IF slot_id \in DOMAIN S THEN [S EXCEPT ![slot_id].is_available = 1] ELSE S

slot_date_time(S, slot_id) ==
    IF slot_id \in DOMAIN S THEN <<S[slot_id].date, S[slot_id].time>> ELSE NoneT

\* cancel_booking run without interleaving
cancel_booking(S, B, booking_id) ==
    IF ~booking_is_active(B, booking_id)
    THEN [slots |-> S, bookings |-> B, res |-> NoneT]
    ELSE LET sid == B[booking_id].slot_id
             S1 == release_slot(S, sid)
         IN  [slots |-> S1, bookings |-> mark_cancelled(B, booking_id),
              res |-> slot_date_time(S1, sid)]

\* ---------------------------------------------------------------- reminders
\* datetime.strptime(date + " " + time): hours since 00:00 of day 0
slot_datetime(d, t) == d * HoursPerDay + t

reminder_run_at(d, t) == slot_datetime(d, t) - ReminderLeadHours

\* faulty variant of reminder_job_id: the id is made of the booking id and
\* of the time of the call
reminder_job_id_by_time(booking_id) == <<"reminder", booking_id, now>>

reminder_job_id(booking_id) == <<"reminder", booking_id>>

save_reminder(R, booking_id, run_at, job_id) ==
    {r \in R : r.booking_id # booking_id}
        \cup {[booking_id |-> booking_id, run_at |-> run_at, job_id |-> job_id]}

\* faulty variant of delete_reminder: the job id is read but the row is not deleted
delete_reminder_select_only(R, booking_id) ==
    LET rows == {r \in R : r.booking_id = booking_id}
    IN  [reminders |-> R,
         job_id |-> IF rows = {} THEN NoneT ELSE (CHOOSE r \in rows : TRUE).job_id]

\* delete_reminder: the table afterwards and the job id returned
delete_reminder(R, booking_id) ==
    LET rows == {r \in R : r.booking_id = booking_id}
    IN  IF rows = {}
        THEN [reminders |-> R, job_id |-> NoneT]
        ELSE [reminders |-> R \ rows,
              job_id |-> (CHOOSE r \in rows : TRUE).job_id]

\* scheduler.add_job(..., id=job_id, replace_existing=True)
add_job(J, job_id, run_date, tg_id) ==
    {j \in J : j.id # job_id}
        \cup {[id |-> job_id, run_date |-> run_date, tg_id |-> tg_id]}

\* faulty variant of remove_job: the job stays in the job store
remove_job_keeps(J, job_id) == J

\* the job store after scheduler.remove_job(job_id)
remove_job(J, job_id) == {j \in J : j.id # job_id}

\* scheduler.remove_job raises JobLookupError for an id the job store lacks
job_known(J, job_id) == \E j \in J : j.id = job_id

\* faulty variant of try_remove_job: remove_job is called without try/except
try_remove_job_unguarded(J, job_id) ==
    [jobs |-> remove_job(J, job_id),
     raised |-> ~job_known(J, job_id),
     errors |-> IF job_known(J, job_id) THEN {} ELSE {"JobLookupError"}]

\* try: scheduler.remove_job(job_id) / except Exception: pass
try_remove_job(J, job_id) ==
    [jobs |-> remove_job(J, job_id),
     raised |-> FALSE,
     errors |-> IF job_known(J, job_id) THEN {} ELSE {"JobLookupError"}]

\* faulty variant of schedule_reminder: run_at < now in place of run_at <= now
schedule_reminder_strict(R, J, clock, booking_id, tg_id, d, t) ==
    LET run_at == reminder_run_at(d, t)
        job_id == reminder_job_id(booking_id)
    IN  IF run_at < clock
        THEN [reminders |-> R, jobs |-> J]
        ELSE [reminders |-> save_reminder(R, booking_id, run_at, job_id),
              jobs |-> add_job(J, job_id, run_at, tg_id)]

\* schedule_reminder: the reminders table and the job store afterwards
schedule_reminder(R, J, clock, booking_id, tg_id, d, t) ==
    LET run_at == reminder_run_at(d, t)
        job_id == reminder_job_id(booking_id)
    IN  IF run_at <= clock
        THEN [reminders |-> R, jobs |-> J]
        ELSE [reminders |-> save_reminder(R, booking_id, run_at, job_id),
              jobs |-> add_job(J, job_id, run_at, tg_id)]

\* ------------------------------------------------------------ notifications
\* the recipients of the messages a handler sends after its database calls
Notices == {"client", "admin", "channel"}

\* the sends of a handler, in order; failed are the recipients whose send
\* raises.  A send outside try/except (unguarded) that raises ends the
\* handler; the result is the sends that raised and whether one left the
\* handler
send_all(order, unguarded, failed) ==
    LET stops == {i \in DOMAIN order : order[i] \in unguarded \cap failed}
        last == IF stops = {} THEN Len(order) ELSE Min(stops)
    IN  [errors |-> {order[i] : i \in {k \in 1..last : order[k] \in failed}},
         raised |-> stops # {}]

\* confirm_booking: safe_edit_text to the client, then the admin and the
\* channel each inside try/except
confirm_booking_sends(booking_id, failed) ==
    IF booking_id = None
    THEN send_all(<<"client">>, {"client"}, failed)
    ELSE send_all(<<"client", "admin", "channel">>, {"client"}, failed)

\* user_cancel_booking: callback.answer when nothing was cancelled; else
\* safe_edit_text, then the admin and the channel each inside try/except
user_cancel_sends(res, failed) ==
    IF res = NoneT
    THEN send_all(<<"client">>, {"client"}, failed)
    ELSE send_all(<<"client", "admin", "channel">>, {"client"}, failed)

\* admin_cancel_booking_do: the client and the channel each inside
\* try/except, then safe_edit_text to the admin
admin_cancel_sends(res, failed) ==
    IF res = NoneT
    THEN send_all(<<"admin">>, {"admin"}, failed)
    ELSE send_all(<<"client", "channel", "admin">>, {"admin"}, failed)

\* faulty variant of after_sends: a send that raises undoes the handler's writes
after_sends_rolled_back(o, sn) ==
    [store |-> IF sn.errors # {}
               THEN [o EXCEPT !.slots = slots, !.bookings = bookings,
                              !.reminders = reminders]
               ELSE o,
     errors |-> sn.errors, raised |-> sn.raised]

\* a handler's end: every database call has committed before the first send,
\* and no call follows the sends
after_sends(o, sn) == [store |-> o, errors |-> sn.errors, raised |-> sn.raised]

\* ------------------------------------------------------ responses (ret)
\* what the last handler answered: the operation, the value the database call
\* returned, the message shown and the errors that occurred on the way
Response(op, val, msg) == [op |-> op, val |-> val, msg |-> msg, errors |-> {}]

MsgBookFailed == "book_failed"
MsgBooked == "booked"
MsgCancelled == "cancelled"
MsgNotFound == "not_found_or_cancelled"

\* the text confirm_booking shows for what book_slot returned
confirm_message(booking_id) ==
    IF booking_id = None THEN MsgBookFailed ELSE MsgBooked

\* the text the cancel handlers show for what cancel_booking returned
cancel_message(res) == IF res = NoneT THEN MsgNotFound ELSE MsgCancelled

\* ------------------------------------------------- conversations (FSMContext)
\* Each client's conversation is its state (BookingStates, AdminStates, or
\* "none" when the storage holds no state) and its data; MemoryStorage keeps
\* them in the process.
BookingStates ==
    {"choosing_date", "choosing_time", "entering_name", "entering_phone",
     "confirming"}

AdminStates ==
    {"choosing_action", "adding_day", "adding_time_for_day",
     "closing_day_choose", "viewing_day_choose",
     "cancelling_booking_choose_day", "cancelling_booking_choose_booking"}

NoState == "none"

States == {NoState} \cup BookingStates \cup AdminStates

NoData ==
    [chosen_date |-> None, chosen_slot_id |-> None, name |-> NULL,
     phone |-> NULL, admin_day |-> None, admin_cancel_day |-> None]

IdleConversation == [state |-> NoState, data |-> NoData]

\* ------------------------------------------------------------------- Init
IdleTask ==
    [pc |-> "idle", op |-> "none", tg |-> 0, arg |-> 0, user_id |-> 0,
     slot_id |-> 0, ret |-> NoneT, txn |-> NoneT]

\* main() after restore_reminders has returned: dp.start_polling is running
MainPolling == [pc |-> "start_polling", rows |-> {}, clock |-> 0, passes |-> 1]

\* faulty variant of accepting_updates: polling starts beside restore_reminders
accepting_updates_early == main.pc # "down"

\* updates are handled only once main() has reached dp.start_polling
accepting_updates == main.pc = "start_polling"

Init ==
    /\ users = <<>>
    /\ slots = <<>>
    /\ bookings = <<>>
    /\ reminders = {}
    /\ jobs = {}
    /\ now = StartHour
    /\ ret = Response("init", NoneT, "")
    /\ tasks = [t \in Tasks |-> IdleTask]
    /\ main = MainPolling
    /\ fsm = [c \in Clients |-> IdleConversation]
    /\ delivered = <<>>

\* --------------------------------------------- handlers, run to completion
\* Each handler is a function of the store, the job store, the clock and the
\* request: <handler>_outcomes is the set of results it can end with (one,
\* unless a SELECT without ORDER BY can fetch several rows).

create_slot(d, t) ==
    /\ accepting_updates
    /\ Len(slots) < MaxSlots
    /\ slots' = Append(slots, new_slot(d, t))
    /\ ret' = Response("create_slot", NoneT, "")
    /\ UNCHANGED <<users, bookings, reminders, jobs, now, tasks, main, fsm, delivered>>

admin_add_times(d, parts) ==
    LET o == admin_add_times_outcome(slots, d, parts)
    IN  /\ accepting_updates
        /\ Len(o.slots) <= MaxSlots
        /\ slots' = o.slots
        /\ ret' = [Response("admin_add_times", <<o.created>>, "created")
                      EXCEPT !.errors = o.errors]
        /\ UNCHANGED <<users, bookings, reminders, jobs, now, tasks, main, fsm, delivered>>

\* admin_close_day_finish: the store after db.close_day(dt)
close_day_outcome(S, B, R, d) ==
    [slots |-> close_day_slots(S, d), bookings |-> B, reminders |-> R]

close_day(d) ==
    LET o == close_day_outcome(slots, bookings, reminders, d)
    IN  /\ accepting_updates
        /\ slots' = o.slots
        /\ bookings' = o.bookings
        /\ reminders' = o.reminders
        /\ ret' = Response("close_day", <<d>>, "")
        /\ UNCHANGED <<users, jobs, now, tasks, main, fsm, delivered>>

confirm_booking_outcomes(tg, slot_id, name, phone) ==
    LET U0 == update_user_info(users, tg, name, phone)
        bk == book_slot(U0, slots, bookings, tg, slot_id)
    IN  {LET found == id # None /\ get_slot(bk.slots, slot_id) # NoneT
             sr == IF found
                   THEN schedule_reminder(reminders, jobs, now, id, tg,
                            get_slot(bk.slots, slot_id)[1].date,
                            get_slot(bk.slots, slot_id)[1].time)
                   ELSE [reminders |-> reminders, jobs |-> jobs]
         IN  [id |-> id, users |-> bk.users, slots |-> bk.slots,
              bookings |-> bk.bookings, reminders |-> sr.reminders,
              jobs |-> sr.jobs, msg |-> confirm_message(id)]
         : id \in bk.ids}

\* confirm_booking when the sends to the recipients in failed raise
confirm_booking_sending(tg, slot_id, name, phone, failed) ==
    \E o \in confirm_booking_outcomes(tg, slot_id, name, phone) :
        LET r == after_sends(o, confirm_booking_sends(o.id, failed))
        IN  /\ accepting_updates
            /\ Len(r.store.bookings) <= MaxBookings
            /\ users' = r.store.users
            /\ slots' = r.store.slots
            /\ bookings' = r.store.bookings
            /\ reminders' = r.store.reminders
            /\ jobs' = r.store.jobs
            /\ ret' = [Response("confirm_booking",
                                IF o.id = None THEN NoneT ELSE <<o.id>>, o.msg)
                          EXCEPT !.errors = r.errors]
            /\ UNCHANGED <<now, tasks, main, fsm, delivered>>

\* confirm_booking when every send succeeds
confirm_booking(tg, slot_id, name, phone) ==
    confirm_booking_sending(tg, slot_id, name, phone, {})

\* user_cancel_booking: delete_reminder, remove_job, cancel_booking; an
\* exception that leaves the try block ends the handler there
user_cancel_booking_outcome(booking_id) ==
    LET dr == delete_reminder(reminders, booking_id)
        rj == IF dr.job_id # NoneT
              THEN try_remove_job(jobs, dr.job_id)
              ELSE [jobs |-> jobs, raised |-> FALSE, errors |-> {}]
        cb == cancel_booking(slots, bookings, booking_id)
    IN  IF rj.raised
        THEN [res |-> NoneT, slots |-> slots, bookings |-> bookings,
              reminders |-> dr.reminders, jobs |-> rj.jobs,
              msg |-> "", errors |-> rj.errors]
        ELSE [res |-> cb.res, slots |-> cb.slots, bookings |-> cb.bookings,
              reminders |-> dr.reminders, jobs |-> rj.jobs,
              msg |-> cancel_message(cb.res), errors |-> rj.errors]

\* admin_cancel_booking_do: get_booking_info first, then the same steps
admin_cancel_booking_outcome(booking_id) ==
    IF booking_id \notin DOMAIN bookings
    THEN [res |-> NoneT, slots |-> slots, bookings |-> bookings,
          reminders |-> reminders, jobs |-> jobs, msg |-> MsgNotFound,
          errors |-> {}]
    ELSE user_cancel_booking_outcome(booking_id)

apply_cancel(op, r) ==
    /\ accepting_updates
    /\ slots' = r.store.slots
    /\ bookings' = r.store.bookings
    /\ reminders' = r.store.reminders
    /\ jobs' = r.store.jobs
    /\ ret' = [Response(op, r.store.res, r.store.msg)
                  EXCEPT !.errors = r.store.errors \cup r.errors]
    /\ UNCHANGED <<users, now, tasks, main, fsm, delivered>>

user_cancel_booking_sending(booking_id, failed) ==
    LET o == user_cancel_booking_outcome(booking_id)
    IN  apply_cancel("user_cancel_booking",
                     after_sends(o, user_cancel_sends(o.res, failed)))

user_cancel_booking(booking_id) == user_cancel_booking_sending(booking_id, {})

admin_cancel_booking_do_sending(booking_id, failed) ==
    LET o == admin_cancel_booking_outcome(booking_id)
    IN  apply_cancel("admin_cancel_booking_do",
                     after_sends(o, admin_cancel_sends(o.res, failed)))

admin_cancel_booking_do(booking_id) ==
    admin_cancel_booking_do_sending(booking_id, {})

\* bot.send_message of send_reminder: delivered counts, for each booking, the
\* reminder messages that were sent for it
deliver(D, booking_id) ==
    IF booking_id \in DOMAIN D
    THEN [D EXCEPT ![booking_id] = @ + 1]
    ELSE D @@ (booking_id :> 1)

\* the job of a reminder runs at its run_date and leaves the job store
send_reminder(j) ==
    /\ j \in jobs
    /\ j.run_date <= now
    /\ jobs' = jobs \ {j}
    /\ delivered' = deliver(delivered, j.id[2])
    /\ ret' = Response("send_reminder", NoneT, "reminder")
    /\ UNCHANGED <<users, slots, bookings, reminders, now, tasks, main, fsm>>

\* the clock advances once the jobs that are due have run
Tick ==
    /\ now + TickHours <= StartHour + TickHours * MaxTicks
    /\ \A j \in jobs : j.run_date > now
    /\ now' = now + TickHours
    /\ ret' = Response("tick", NoneT, "")
    /\ UNCHANGED <<users, slots, bookings, reminders, jobs, tasks, main, fsm, delivered>>

\* the ids a request can carry: every row's and one that matches no row
BookingIds == 1..(Len(bookings) + 1)
SlotIds == 1..(Len(slots) + 1)

Next ==
    \/ \E d \in Dates, t \in Times : create_slot(d, t)
    \/ \E d \in Dates : close_day(d)
    \/ \E tg \in Clients, s \in SlotIds, n \in Names, p \in Phones :
          confirm_booking(tg, s, n, p)
    \/ \E b \in BookingIds : user_cancel_booking(b)
    \/ \E b \in BookingIds : admin_cancel_booking_do(b)
    \/ \E j \in jobs : send_reminder(j)
    \/ Tick

Spec == Init /\ [][Next]_vars

\* SpecInventory: the admin adds slots by whole messages (admin_add_times, in
\* place of the single create_slot calls of Spec) and closes days, while
\* clients reserve; the clock stands still.
NextInventory ==
    \/ \E d \in Dates, parts \in Parts : admin_add_times(d, parts)
    \/ \E d \in Dates : close_day(d)
    \/ \E tg \in Clients, s \in SlotIds, n \in Names, p \in Phones :
          confirm_booking(tg, s, n, p)

SpecInventory == Init /\ [][NextInventory]_vars

\* SpecNotify: the handlers of Spec with sends that raise (in Spec every send
\* succeeds); the clock stands still.
NextNotify ==
    \/ \E d \in Dates, t \in Times : create_slot(d, t)
    \/ \E tg \in Clients, s \in SlotIds, n \in Names, p \in Phones,
          failed \in SUBSET Notices :
          confirm_booking_sending(tg, s, n, p, failed)
    \/ \E b \in BookingIds, failed \in SUBSET Notices :
          user_cancel_booking_sending(b, failed)
    \/ \E b \in BookingIds, failed \in SUBSET Notices :
          admin_cancel_booking_do_sending(b, failed)

SpecNotify == Init /\ [][NextNotify]_vars

\* ---------------------------------------- SpecConc: interleaved db calls
\* Dispatcher.start_polling handles every update in a task of its own, so
\* two handlers interleave wherever one awaits.  Each call of book_slot and
\* cancel_booking opens its own connection; its SELECTs read the committed
\* tables, and its UPDATE/INSERT ... commit() group is one SQLite write
\* transaction, applied as a whole.  A task is one such call; pc is the
\* statement it executes next.

\* the store after the admin has added MaxSlots slots
InitConc ==
    /\ users = <<>>
    /\ slots = [s \in 1..MaxSlots |-> new_slot(Min({s, MaxDay}), Min(Times))]
    /\ bookings = <<>>
    /\ reminders = {}
    /\ jobs = {}
    /\ now = StartHour
    /\ ret = Response("init", NoneT, "")
    /\ tasks = [t \in Tasks |-> IdleTask]
    /\ main = MainPolling
    /\ fsm = [c \in Clients |-> IdleConversation]
    /\ delivered = <<>>

task_free(t) == tasks[t].pc \in {"idle", "done", "raised"}

set_task(t, r) ==
    /\ tasks' = [tasks EXCEPT ![t] = r]
    /\ UNCHANGED <<reminders, jobs, now, ret, main, fsm, delivered>>

call_book_slot(t, tg, slot_id) ==
    /\ accepting_updates
    /\ task_free(t)
    /\ set_task(t, [IdleTask EXCEPT !.pc = "bs_select_active",
                       !.op = "book_slot", !.tg = tg, !.arg = slot_id])
    /\ UNCHANGED <<users, slots, bookings>>

\* SELECT b.id ... WHERE u.tg_id = ? AND b.status = 'active'
bs_select_active(t) ==
    /\ tasks[t].pc = "bs_select_active"
    /\ IF active_booking_ids(users, bookings, tasks[t].tg) # {}
       THEN set_task(t, [tasks[t] EXCEPT !.pc = "done", !.ret = NoneT])
       ELSE set_task(t, [tasks[t] EXCEPT !.pc = "gu_select"])
    /\ UNCHANGED <<users, slots, bookings>>

\* get_or_create_user: SELECT id FROM users WHERE tg_id = ?
gu_select(t) ==
    /\ tasks[t].pc = "gu_select"
    /\ IF user_ids(users, tasks[t].tg) # {}
       THEN set_task(t, [tasks[t] EXCEPT !.pc = "bs_select_slot",
                            !.user_id = Min(user_ids(users, tasks[t].tg))])
       ELSE set_task(t, [tasks[t] EXCEPT !.pc = "gu_insert"])
    /\ UNCHANGED <<users, slots, bookings>>

\* get_or_create_user: INSERT INTO users (tg_id); tg_id is UNIQUE, so the
\* INSERT raises when another task has created the row meanwhile
gu_insert(t) ==
    /\ tasks[t].pc = "gu_insert"
    /\ IF user_ids(users, tasks[t].tg) # {}
       THEN /\ set_task(t, [tasks[t] EXCEPT !.pc = "raised"])
            /\ UNCHANGED users
       ELSE /\ users' = get_or_create_user(users, tasks[t].tg)
            /\ set_task(t, [tasks[t] EXCEPT !.pc = "bs_select_slot",
                               !.user_id = Len(users) + 1])
    /\ UNCHANGED <<slots, bookings>>

\* SELECT is_available FROM slots WHERE id = ?
bs_select_slot(t) ==
    /\ tasks[t].pc = "bs_select_slot"
    /\ IF slot_bookable(slots, tasks[t].arg)
       THEN set_task(t, [tasks[t] EXCEPT !.pc = "bs_write"])
       ELSE set_task(t, [tasks[t] EXCEPT !.pc = "done", !.ret = NoneT])
    /\ UNCHANGED <<users, slots, bookings>>

\* UPDATE slots SET is_available = 0; INSERT INTO bookings; commit
bs_write(t) ==
    /\ tasks[t].pc = "bs_write"
    /\ Len(bookings) < MaxBookings
    /\ slots' = take_slot(slots, tasks[t].arg)
    /\ bookings' = insert_booking(bookings, tasks[t].user_id, tasks[t].arg)
    /\ set_task(t, [tasks[t] EXCEPT !.pc = "bs_select_id"])
    /\ UNCHANGED users

\* SELECT id FROM bookings WHERE user_id = ? AND slot_id = ? AND status =
\* 'active'; fetchone() of a SELECT without ORDER BY: any matching row
bs_select_id(t) ==
    /\ tasks[t].pc = "bs_select_id"
    /\ LET ids == booked_ids(bookings, tasks[t].user_id, tasks[t].arg)
       IN  IF ids = {}
           THEN set_task(t, [tasks[t] EXCEPT !.pc = "done", !.ret = NoneT])
           ELSE \E id \in ids :
                   set_task(t, [tasks[t] EXCEPT !.pc = "done", !.ret = <<id>>])
    /\ UNCHANGED <<users, slots, bookings>>

call_cancel_booking(t, booking_id) ==
    /\ accepting_updates
    /\ task_free(t)
    /\ set_task(t, [IdleTask EXCEPT !.pc = "cb_select",
                       !.op = "cancel_booking", !.arg = booking_id])
    /\ UNCHANGED <<users, slots, bookings>>

\* SELECT slot_id FROM bookings WHERE id = ? AND status = 'active'
cb_select(t) ==
    /\ tasks[t].pc = "cb_select"
    /\ IF booking_is_active(bookings, tasks[t].arg)
       THEN set_task(t, [tasks[t] EXCEPT !.pc = "cb_write",
                            !.slot_id = bookings[tasks[t].arg].slot_id])
       ELSE set_task(t, [tasks[t] EXCEPT !.pc = "done", !.ret = NoneT])
    /\ UNCHANGED <<users, slots, bookings>>

\* UPDATE bookings SET status = 'cancelled'; UPDATE slots SET is_available =
\* 1; commit
cb_write(t) ==
    /\ tasks[t].pc = "cb_write"
    /\ bookings' = mark_cancelled(bookings, tasks[t].arg)
    /\ slots' = release_slot(slots, tasks[t].slot_id)
    /\ set_task(t, [tasks[t] EXCEPT !.pc = "cb_select_slot"])
    /\ UNCHANGED users

\* SELECT date, time FROM slots WHERE id = ?
cb_select_slot(t) ==
    /\ tasks[t].pc = "cb_select_slot"
    /\ set_task(t, [tasks[t] EXCEPT !.pc = "done",
                       !.ret = slot_date_time(slots, tasks[t].slot_id)])
    /\ UNCHANGED <<users, slots, bookings>>

NextConc ==
    \/ \E t \in Tasks, tg \in Clients, s \in SlotIds : call_book_slot(t, tg, s)
    \/ \E t \in Tasks, b \in BookingIds : call_cancel_booking(t, b)
    \/ \E t \in Tasks : bs_select_active(t)
    \/ \E t \in Tasks : gu_select(t)
    \/ \E t \in Tasks : gu_insert(t)
    \/ \E t \in Tasks : bs_select_slot(t)
    \/ \E t \in Tasks : bs_write(t)
    \/ \E t \in Tasks : bs_select_id(t)
    \/ \E t \in Tasks : cb_select(t)
    \/ \E t \in Tasks : cb_write(t)
    \/ \E t \in Tasks : cb_select_slot(t)

SpecConc == InitConc /\ [][NextConc]_vars

\* the steps of a call once it has started
call_steps ==
    \/ \E t \in Tasks : bs_select_active(t)
    \/ \E t \in Tasks : gu_select(t)
    \/ \E t \in Tasks : gu_insert(t)
    \/ \E t \in Tasks : bs_select_slot(t)
    \/ \E t \in Tasks : bs_write(t)
    \/ \E t \in Tasks : bs_select_id(t)
    \/ \E t \in Tasks : cb_select(t)
    \/ \E t \in Tasks : cb_write(t)
    \/ \E t \in Tasks : cb_select_slot(t)

\* SpecPerClient: the interleavings of SpecConc in which the updates of one
\* client are handled one at a time (a client never has two book_slot calls
\* in flight); calls of different clients interleave freely.
call_book_slot_per_client(t, tg, slot_id) ==
    /\ \A t2 \in Tasks : task_free(t2) \/ tasks[t2].tg # tg
    /\ call_book_slot(t, tg, slot_id)

NextPerClient ==
    \/ \E t \in Tasks, tg \in Clients, s \in SlotIds :
          call_book_slot_per_client(t, tg, s)
    \/ \E t \in Tasks, b \in BookingIds : call_cancel_booking(t, b)
    \/ call_steps

SpecPerClient == InitConc /\ [][NextPerClient]_vars

\* SpecCancelRace: the interleavings of SpecConc in which no other call runs
\* between the first and the last statement of a book_slot call; only the
\* statements of cancel_booking calls interleave.
book_slot_uninterrupted(t, tg, slot_id) ==
    LET bk == book_slot(users, slots, bookings, tg, slot_id)
    IN  /\ accepting_updates
        /\ task_free(t)
        /\ Len(bk.bookings) <= MaxBookings
        /\ users' = bk.users
        /\ slots' = bk.slots
        /\ bookings' = bk.bookings
        /\ \E id \in bk.ids :
              set_task(t, [IdleTask EXCEPT !.pc = "done", !.op = "book_slot",
                              !.tg = tg, !.arg = slot_id,
                              !.ret = IF id = None THEN NoneT ELSE <<id>>])

NextCancelRace ==
    \/ \E t \in Tasks, tg \in Clients, s \in SlotIds :
          book_slot_uninterrupted(t, tg, s)
    \/ \E t \in Tasks, b \in BookingIds : call_cancel_booking(t, b)
    \/ \E t \in Tasks : cb_select(t)
    \/ \E t \in Tasks : cb_write(t)
    \/ \E t \in Tasks : cb_select_slot(t)

SpecCancelRace == InitConc /\ [][NextCancelRace]_vars

\* -------------------------------- SpecLifecycle: handlers, scheduler, restart
\* The handlers interleave at their awaits with one another, with the jobs of
\* the scheduler and with a stop of the process; every database call is one
\* step (the interleavings inside book_slot and cancel_booking are those of
\* SpecConc).  A task is one handler; pc is the call it makes next.

MainDown == [pc |-> "down", rows |-> {}, clock |-> 0, passes |-> 0]

\* get_all_reminders: reminders JOIN bookings JOIN users JOIN slots
get_all_reminders(R, B, U, S) ==
    {[booking_id |-> r.booking_id, run_at |-> r.run_at,
      status |-> B[r.booking_id].status,
      tg_id |-> U[B[r.booking_id].user_id].tg_id,
      date |-> S[B[r.booking_id].slot_id].date,
      time |-> S[B[r.booking_id].slot_id].time]
     : r \in {x \in R : /\ x.booking_id \in DOMAIN B
                         /\ B[x.booking_id].user_id \in DOMAIN U
                         /\ B[x.booking_id].slot_id \in DOMAIN S}}

\* faulty variant of restore_row: a record whose fire time has passed is kept
restore_row_keeps_past(R, J, clock, r) ==
    IF r.status # "active"
    THEN [reminders |-> delete_reminder(R, r.booking_id).reminders,
          jobs |-> J, msg |-> "dropped"]
    ELSE [reminders |-> schedule_reminder(R, J, clock, r.booking_id, r.tg_id,
                                          r.date, r.time).reminders,
          jobs |-> schedule_reminder(R, J, clock, r.booking_id, r.tg_id,
                                     r.date, r.time).jobs,
          msg |-> "armed"]

\* faulty variant of restore_row: the job of an active booking is armed
\* again whatever its fire time
restore_row_rearms_past(R, J, clock, r) ==
    IF r.status # "active"
    THEN [reminders |-> delete_reminder(R, r.booking_id).reminders,
          jobs |-> J, msg |-> "dropped"]
    ELSE [reminders |-> save_reminder(R, r.booking_id, r.run_at,
                                      reminder_job_id(r.booking_id)),
          jobs |-> add_job(J, reminder_job_id(r.booking_id), r.run_at,
                           r.tg_id),
          msg |-> "armed"]

\* the body of the loop of restore_reminders for one row
restore_row(R, J, clock, r) ==
    IF r.status # "active" \/ r.run_at <= clock
    THEN [reminders |-> delete_reminder(R, r.booking_id).reminders,
          jobs |-> J, msg |-> "dropped"]
    ELSE [reminders |-> schedule_reminder(R, J, clock, r.booking_id, r.tg_id,
                                          r.date, r.time).reminders,
          jobs |-> schedule_reminder(R, J, clock, r.booking_id, r.tg_id,
                                     r.date, r.time).jobs,
          msg |-> "armed"]

\* the process is killed: the job store and the running handlers are lost;
\* the response tells the statement each task was at
stop ==
    /\ main.pc # "down"
    /\ jobs' = {}
    /\ tasks' = [t \in Tasks |-> IdleTask]
    /\ main' = MainDown
    /\ fsm' = [c \in Clients |-> IdleConversation]
    /\ ret' = Response("stop", [t \in Tasks |-> tasks[t].pc], "")
    /\ UNCHANGED <<users, slots, bookings, reminders, now, delivered>>

\* main() up to the first lines of restore_reminders: the scheduler starts
\* empty, the rows are fetched and the clock is read
start_main ==
    /\ main.pc = "down"
    /\ main' = [pc |-> "restore_reminders",
                rows |-> get_all_reminders(reminders, bookings, users, slots),
                clock |-> now, passes |-> 0]
    /\ ret' = Response("main", NoneT, "")
    /\ UNCHANGED <<users, slots, bookings, reminders, jobs, now, tasks, fsm, delivered>>

restore_reminders_step ==
    /\ main.pc = "restore_reminders"
    /\ \E r \in main.rows :
          LET o == restore_row(reminders, jobs, main.clock, r)
          IN  /\ reminders' = o.reminders
              /\ jobs' = o.jobs
              /\ main' = [main EXCEPT !.rows = main.rows \ {r}]
              /\ ret' = Response("restore_reminders", <<r.booking_id>>, o.msg)
    /\ UNCHANGED <<users, slots, bookings, now, tasks, fsm, delivered>>

\* restore_reminders has returned; main() goes on to dp.start_polling
start_polling ==
    /\ main.pc = "restore_reminders"
    /\ main.rows = {}
    /\ main' = [MainPolling EXCEPT !.passes = main.passes + 1]
    /\ ret' = Response("start_polling", NoneT, "")
    /\ UNCHANGED <<users, slots, bookings, reminders, jobs, now, tasks, fsm, delivered>>

\* restore_reminders when a statement of its loop raises.
\* The loop body has no try/except and neither has main(): an exception of
\* fromisoformat, delete_reminder or schedule_reminder for a row leaves
\* restore_reminders and main(), and the process ends with it.
restore_reminders_raises ==
    /\ main.pc = "restore_reminders"
    /\ \E r \in main.rows :
          ret' = [Response("restore_reminders", <<r.booking_id>>, "raised")
                     EXCEPT !.errors = {"restore_reminders"}]
    /\ main' = MainDown
    /\ jobs' = {}
    /\ UNCHANGED <<users, slots, bookings, reminders, now, tasks, fsm, delivered>>

\* the clock advances while the process is down or polling
TickLifecycle ==
    /\ main.pc # "restore_reminders"
    /\ Tick

\* a handler that returns leaves no task behind.  One confirm_booking at a
\* time runs (in the first task) beside the cancellations, which run in the
\* other tasks, each in the first that is free
ConfirmTask == Min(Tasks)

next_task ==
    Min({t \in Tasks \ {ConfirmTask} : task_free(t)} \cup {NumTasks + 1})

set_task_only(t, r) ==
    /\ tasks' = [tasks EXCEPT ![t] = r]
    /\ UNCHANGED <<now, ret, main, fsm, delivered>>

call_confirm_booking(t, tg, slot_id) ==
    /\ accepting_updates
    /\ t = ConfirmTask
    /\ task_free(t)
    /\ set_task_only(t, [IdleTask EXCEPT !.pc = "cf_update_user_info",
                            !.op = "confirm_booking", !.tg = tg,
                            !.arg = slot_id])
    /\ UNCHANGED <<users, slots, bookings, reminders, jobs>>

cf_update_user_info(t) ==
    /\ tasks[t].pc = "cf_update_user_info"
    /\ \E n \in Names, p \in Phones :
          users' = update_user_info(users, tasks[t].tg, n, p)
    /\ set_task_only(t, [tasks[t] EXCEPT !.pc = "cf_book_slot"])
    /\ UNCHANGED <<slots, bookings, reminders, jobs>>

cf_book_slot(t) ==
    /\ tasks[t].pc = "cf_book_slot"
    /\ LET bk == book_slot(users, slots, bookings, tasks[t].tg, tasks[t].arg)
       IN  /\ Len(bk.bookings) <= MaxBookings
           /\ users' = bk.users
           /\ slots' = bk.slots
           /\ bookings' = bk.bookings
           /\ \E id \in bk.ids :
                 IF id = None
                 THEN set_task_only(t, IdleTask)
                 ELSE set_task_only(t, [tasks[t] EXCEPT !.pc = "cf_get_slot",
                                           !.ret = <<id>>])
    /\ UNCHANGED <<reminders, jobs>>

cf_get_slot(t) ==
    /\ tasks[t].pc = "cf_get_slot"
    /\ IF get_slot(slots, tasks[t].arg) = NoneT
       THEN set_task_only(t, IdleTask)
       ELSE set_task_only(t, [tasks[t] EXCEPT !.pc = "cf_add_job"])
    /\ UNCHANGED <<users, slots, bookings, reminders, jobs>>

\* schedule_reminder up to its await: run_at, the test against now, add_job
\* (the date and the time of a slot row never change, so they are read here)
cf_add_job(t) ==
    /\ tasks[t].pc = "cf_add_job"
    /\ LET run_at == reminder_run_at(slots[tasks[t].arg].date,
                                     slots[tasks[t].arg].time)
       IN  IF run_at <= now
           THEN /\ set_task_only(t, IdleTask)
                /\ UNCHANGED jobs
           ELSE /\ jobs' = add_job(jobs, reminder_job_id(tasks[t].ret[1]),
                                   run_at, tasks[t].tg)
                /\ set_task_only(t, [tasks[t] EXCEPT !.pc = "cf_save_reminder"])
    /\ UNCHANGED <<users, slots, bookings, reminders>>

\* schedule_reminder: await db.save_reminder(booking_id, run_at, job_id)
cf_save_reminder(t) ==
    /\ tasks[t].pc = "cf_save_reminder"
    /\ reminders' = save_reminder(reminders, tasks[t].ret[1],
                        reminder_run_at(slots[tasks[t].arg].date,
                                        slots[tasks[t].arg].time),
                        reminder_job_id(tasks[t].ret[1]))
    /\ set_task_only(t, IdleTask)
    /\ UNCHANGED <<users, slots, bookings, jobs>>

call_user_cancel_booking(t, booking_id) ==
    /\ accepting_updates
    /\ t = next_task
    /\ set_task_only(t, [IdleTask EXCEPT !.pc = "uc_delete_reminder",
                            !.op = "cancel", !.arg = booking_id])
    /\ UNCHANGED <<users, slots, bookings, reminders, jobs>>

call_admin_cancel_booking_do(t, booking_id) ==
    /\ accepting_updates
    /\ t = next_task
    /\ set_task_only(t, [IdleTask EXCEPT !.pc = "ac_get_booking_info",
                            !.op = "cancel", !.arg = booking_id])
    /\ UNCHANGED <<users, slots, bookings, reminders, jobs>>

ac_get_booking_info(t) ==
    /\ tasks[t].pc = "ac_get_booking_info"
    /\ IF tasks[t].arg \in DOMAIN bookings
       THEN set_task_only(t, [tasks[t] EXCEPT !.pc = "uc_delete_reminder"])
       ELSE set_task_only(t, IdleTask)
    /\ UNCHANGED <<users, slots, bookings, reminders, jobs>>

\* await db.delete_reminder, then scheduler.remove_job (no await in between)
uc_delete_reminder(t) ==
    /\ tasks[t].pc = "uc_delete_reminder"
    /\ LET dr == delete_reminder(reminders, tasks[t].arg)
       IN  /\ reminders' = dr.reminders
           /\ jobs' = IF dr.job_id # NoneT
                      THEN remove_job(jobs, dr.job_id) ELSE jobs
    /\ set_task_only(t, [tasks[t] EXCEPT !.pc = "uc_cancel_booking"])
    /\ UNCHANGED <<users, slots, bookings>>

uc_cancel_booking(t) ==
    /\ tasks[t].pc = "uc_cancel_booking"
    /\ LET cb == cancel_booking(slots, bookings, tasks[t].arg)
       IN  /\ slots' = cb.slots
           /\ bookings' = cb.bookings
           /\ set_task_only(t, IdleTask)
    /\ UNCHANGED <<users, reminders, jobs>>

NextLifecycle ==
    \/ \E t \in Tasks, tg \in Clients, s \in SlotIds :
          call_confirm_booking(t, tg, s)
    \/ \E t \in Tasks, b \in BookingIds : call_user_cancel_booking(t, b)
    \/ \E t \in Tasks, b \in BookingIds : call_admin_cancel_booking_do(t, b)
    \/ \E t \in Tasks : cf_update_user_info(t)
    \/ \E t \in Tasks : cf_book_slot(t)
    \/ \E t \in Tasks : cf_get_slot(t)
    \/ \E t \in Tasks : cf_add_job(t)
    \/ \E t \in Tasks : cf_save_reminder(t)
    \/ \E t \in Tasks : ac_get_booking_info(t)
    \/ \E t \in Tasks : uc_delete_reminder(t)
    \/ \E t \in Tasks : uc_cancel_booking(t)
    \/ \E j \in jobs : send_reminder(j)
    \/ TickLifecycle
    \/ stop
    \/ start_main
    \/ restore_reminders_step
    \/ restore_reminders_raises
    \/ start_polling

SpecLifecycle == InitConc /\ [][NextLifecycle]_vars

\* ------------------------------ SpecCommit: statements, commit and a stop
\* The write statements of book_slot and cancel_booking one by one.  sqlite3
\* opens a transaction before the first UPDATE or INSERT of a connection;
\* what the connection has written is in its own view of the tables (txn)
\* until commit() makes it durable, and is lost when the process stops.
\* SQLite lets one connection write at a time.

\* faulty variant of execute: the connection is in autocommit mode
execute_autocommit(durable, written) == [durable |-> written, view |-> written]

\* db.execute of an UPDATE or INSERT in an open transaction
execute(durable, written) == [durable |-> durable, view |-> written]

\* the next UPDATE or INSERT of the call of task t
tx_execute(t) ==
    LET k == tasks[t]
        view == IF k.txn = NoneT
                THEN [slots |-> slots, bookings |-> bookings]
                ELSE k.txn[1]
        S == CASE k.pc = "bs_write" -> take_slot(view.slots, k.arg)
               [] k.pc = "cb_update_slot" -> release_slot(view.slots, k.slot_id)
               [] OTHER -> view.slots
        B == CASE k.pc = "bs_insert"
                    -> insert_booking(view.bookings, k.user_id, k.arg)
               [] k.pc = "cb_write" -> mark_cancelled(view.bookings, k.arg)
               [] OTHER -> view.bookings
        next == CASE k.pc = "bs_write" -> "bs_insert"
                  [] k.pc = "bs_insert" -> "bs_commit"
                  [] k.pc = "cb_write" -> "cb_update_slot"
                  [] k.pc = "cb_update_slot" -> "cb_commit"
    IN  /\ k.pc \in {"bs_write", "bs_insert", "cb_write", "cb_update_slot"}
        /\ k.txn = NoneT => \A u \in Tasks : tasks[u].txn = NoneT
        /\ k.pc = "bs_insert" => Len(view.bookings) < MaxBookings
        /\ slots' = execute(slots, S).durable
        /\ bookings' = execute(bookings, B).durable
        /\ set_task(t, [k EXCEPT !.pc = next,
                           !.txn = <<[slots |-> execute(slots, S).view,
                                      bookings |-> execute(bookings, B).view]>>])
        /\ UNCHANGED users

\* db.commit(): what the connection has written becomes durable
tx_commit(t) ==
    /\ tasks[t].pc \in {"bs_commit", "cb_commit"}
    /\ slots' = tasks[t].txn[1].slots
    /\ bookings' = tasks[t].txn[1].bookings
    /\ set_task(t, [tasks[t] EXCEPT
                       !.pc = IF tasks[t].pc = "bs_commit"
                              THEN "bs_select_id"
                              ELSE "cb_select_slot",
                       !.txn = NoneT])
    /\ UNCHANGED users

NextCommit ==
    \/ \E t \in Tasks, tg \in Clients, s \in SlotIds : call_book_slot(t, tg, s)
    \/ \E t \in Tasks, b \in BookingIds : call_cancel_booking(t, b)
    \/ \E t \in Tasks : bs_select_active(t)
    \/ \E t \in Tasks : gu_select(t)
    \/ \E t \in Tasks : gu_insert(t)
    \/ \E t \in Tasks : bs_select_slot(t)
    \/ \E t \in Tasks : tx_execute(t)
    \/ \E t \in Tasks : tx_commit(t)
    \/ \E t \in Tasks : bs_select_id(t)
    \/ \E t \in Tasks : cb_select(t)
    \/ \E t \in Tasks : cb_select_slot(t)
    \/ stop
    \/ start_main
    \/ start_polling

SpecCommit == InitConc /\ [][NextCommit]_vars


\* ======================================================= claims under Spec
active_on_slot(B, slot_id) ==
    {b \in DOMAIN B : B[b].slot_id = slot_id /\ B[b].status = "active"}

\* C3 (as stated): in every state reachable by addSlot, reserve, cancel and
\* closeDay, a slot is available if and only if no active reservation
\* references it.
C3_AvailableIffNoActiveBooking ==
    \A s \in DOMAIN slots :
        (slots[s].is_available = 1) <=> (active_on_slot(bookings, s) = {})

\* C3 (amended): in every state reachable by addSlot, reserve, cancel and
\* closeDay, an available slot is referenced by no active reservation, and an
\* active reservation's slot is unavailable.
C3_AvailableImpliesNoActiveBooking ==
    \A s \in DOMAIN slots :
        (slots[s].is_available = 1) => (active_on_slot(bookings, s) = {})

\* a freed slot (available, with a cancelled reservation) beside a taken one
C3_Witness ==
    /\ \E b \in DOMAIN bookings :
          /\ bookings[b].status = "cancelled"
          /\ slots[bookings[b].slot_id].is_available = 1
    /\ \E b \in DOMAIN bookings :
          /\ bookings[b].status = "active"
          /\ slots[bookings[b].slot_id].is_available = 0

\* C5: when a client with no active reservation reserves an existing
\* available slot, the call returns the id of exactly one new reservation
\* (that client, that slot, active), the slot becomes unavailable, and every
\* other slot and every other reservation is unchanged.
C5_ReserveSuccess ==
    \A tg \in Clients, s \in DOMAIN slots, n \in Names, p \in Phones :
        (active_booking_ids(users, bookings, tg) = {}
            /\ slots[s].is_available = 1)
        => /\ confirm_booking_outcomes(tg, s, n, p) # {}
           /\ \A o \in confirm_booking_outcomes(tg, s, n, p) :
                /\ o.id # None
                /\ o.id \in DOMAIN o.bookings
                /\ DOMAIN o.bookings = DOMAIN bookings \cup {o.id}
                /\ o.id \notin DOMAIN bookings
                /\ o.bookings[o.id].slot_id = s
                /\ o.bookings[o.id].status = "active"
                /\ o.bookings[o.id].user_id \in DOMAIN o.users
                /\ o.users[o.bookings[o.id].user_id].tg_id = tg
                /\ \A b \in DOMAIN bookings : o.bookings[b] = bookings[b]
                /\ DOMAIN o.slots = DOMAIN slots
                /\ o.slots[s] = [slots[s] EXCEPT !.is_available = 0]
                /\ \A s2 \in DOMAIN slots \ {s} : o.slots[s2] = slots[s2]

\* a second reservation has just been made on the second slot
C5_Witness ==
    /\ ret.op = "confirm_booking"
    /\ ret.val = <<2>>
    /\ bookings[2].status = "active"
    /\ bookings[2].slot_id = 2
    /\ slots[2].is_available = 0

\* C6: a reserve that fails (the client already has an active reservation, or
\* the slot is missing or not available) returns the failure value and
\* leaves slots, reservations and reminder records exactly as they were; and
\* reserve fails in each of these cases.
C6_ReserveFailureChangesNothing ==
    \A tg \in Clients, s \in SlotIds, n \in Names, p \in Phones :
        \A o \in confirm_booking_outcomes(tg, s, n, p) :
            /\ (active_booking_ids(users, bookings, tg) # {}
                    \/ s \notin DOMAIN slots
                    \/ slots[s].is_available = 0)
               => o.id = None
            /\ o.id = None
               => /\ o.slots = slots
                  /\ o.bookings = bookings
                  /\ o.reminders = reminders

\* a reserve has just failed for a client while free slots remain
C6_Witness ==
    /\ ret.op = "confirm_booking"
    /\ ret.val = NoneT
    /\ \E s \in DOMAIN slots : slots[s].is_available = 1
    /\ \E s \in DOMAIN slots : slots[s].is_available = 0
    /\ \E b \in DOMAIN bookings : bookings[b].status = "active"

\* C7: a failed reserve reports its cause: the outcome (returned value and
\* message) for a client who already has an active reservation differs from
\* the outcome for a slot that is missing or not available.
C7_DistinctFailureOutcomes ==
    \A tg1 \in Clients, tg2 \in Clients, s1 \in SlotIds, s2 \in SlotIds,
       n \in Names, p \in Phones :
        (/\ active_booking_ids(users, bookings, tg1) # {}
         /\ active_booking_ids(users, bookings, tg2) = {}
         /\ ~slot_bookable(slots, s2))
        => \A o1 \in confirm_booking_outcomes(tg1, s1, n, p),
              o2 \in confirm_booking_outcomes(tg2, s2, n, p) :
                o1.id # o2.id /\ o1.msg # o2.msg

\* C8: cancelByClient and cancelByAdmin on an active reservation leave it
\* cancelled, its slot available, no reminder record for it, and return the
\* slot's (date, time).
C8_CancelActive ==
    \A b \in DOMAIN bookings :
        bookings[b].status = "active"
        => \A o \in {user_cancel_booking_outcome(b),
                     admin_cancel_booking_outcome(b)} :
              /\ o.bookings[b].status = "cancelled"
              /\ o.slots[bookings[b].slot_id].is_available = 1
              /\ \A r \in o.reminders : r.booking_id # b
              /\ o.res = <<slots[bookings[b].slot_id].date,
                           slots[bookings[b].slot_id].time>>

\* the only reservation, made more than 24 h ahead (so it had a reminder), has
\* just been cancelled by the client
C8_Witness ==
    /\ ret.op = "user_cancel_booking"
    /\ ret.val = <<2, 10>>
    /\ now = StartHour
    /\ Len(bookings) = 1
    /\ bookings[1].status = "cancelled"
    /\ slots[bookings[1].slot_id].is_available = 1
    /\ reminders = {}

\* C9: cancel with an id that matches no reservation, or an already cancelled
\* one, returns the null result and changes no slot's available flag and no
\* reservation's status (so a second cancel does not re-open a re-reserved
\* slot).
C9_CancelInactiveChangesNothing ==
    \A b \in BookingIds :
        ~(b \in DOMAIN bookings /\ bookings[b].status = "active")
        => \A o \in {user_cancel_booking_outcome(b),
                     admin_cancel_booking_outcome(b)} :
              /\ o.res = NoneT
              /\ o.slots = slots
              /\ o.bookings = bookings

\* a cancelled reservation was cancelled once more after its slot had been
\* reserved by another client
C9_Witness ==
    /\ ret.op \in {"user_cancel_booking", "admin_cancel_booking_do"}
    /\ ret.val = NoneT
    /\ \E b1 \in DOMAIN bookings, b2 \in DOMAIN bookings :
          /\ bookings[b1].status = "cancelled"
          /\ bookings[b2].status = "active"
          /\ bookings[b1].slot_id = bookings[b2].slot_id
          /\ bookings[b1].user_id # bookings[b2].user_id
          /\ slots[bookings[b2].slot_id].is_available = 0

\* C10: for a reservation confirmed at time now on a slot with datetime T: if
\* T - 24h > now there is one reminder record and one live job for it, both
\* with fire time exactly T - 24h; if T - 24h <= now there is neither.
C10_ReminderFireTime ==
    \A tg \in Clients, s \in DOMAIN slots, n \in Names, p \in Phones :
        \A o \in confirm_booking_outcomes(tg, s, n, p) :
            o.id # None
            => LET T == slots[s].date * 24 + slots[s].time
                   recs == {r \in o.reminders : r.booking_id = o.id}
                   live == {j \in o.jobs : j.id = reminder_job_id(o.id)}
               IN  IF T - 24 > now
                   THEN /\ Cardinality(recs) = 1
                        /\ Cardinality(live) = 1
                        /\ \A r \in recs : r.run_at = T - 24
                        /\ \A j \in live : j.run_date = T - 24
                   ELSE recs = {} /\ live = {}

\* reservation 1 got its reminder for T - 24h; reservation 2 was confirmed
\* exactly at T - 24h of its slot and got none
C10_Witness ==
    /\ ret.op = "confirm_booking"
    /\ ret.val = <<2>>
    /\ LET s1 == slots[bookings[1].slot_id]
           s2 == slots[bookings[2].slot_id]
       IN  /\ s2.date * 24 + s2.time - 24 = now
           /\ \A r \in reminders : r.booking_id # 2
           /\ \E r \in reminders :
                 r.booking_id = 1 /\ r.run_at = s1.date * 24 + s1.time - 24

\* C16: closeDay is idempotent: for every reachable store and every date d,
\* closeDay(d) applied twice gives the same slots, reservations and reminders
\* as closeDay(d) applied once.
C16_CloseDayIdempotent ==
    \A d \in Dates :
        LET once == close_day_outcome(slots, bookings, reminders, d)
            twice == close_day_outcome(once.slots, once.bookings,
                                       once.reminders, d)
        IN  twice = once

\* day 1 has just been closed: its slot is unavailable without a reservation
\* on it, and a slot of day 2 is still available
C16_Witness ==
    /\ ret.op = "close_day"
    /\ ret.val = <<1>>
    /\ \E s \in DOMAIN slots :
          /\ slots[s].date = 1
          /\ slots[s].is_available = 0
          /\ active_on_slot(bookings, s) = {}
    /\ \E s \in DOMAIN slots : slots[s].date = 2 /\ slots[s].is_available = 1

\* C17: after closeDay(d) every slot of date d is unavailable whatever its
\* state was, and the slots of every other date, all reservations (active
\* ones on d stay active) and all reminder records are unchanged.
C17_CloseDayFrame ==
    \A d \in Dates :
        LET o == close_day_outcome(slots, bookings, reminders, d)
        IN  /\ DOMAIN o.slots = DOMAIN slots
            /\ \A s \in DOMAIN slots :
                  IF slots[s].date = d
                  THEN o.slots[s] = [slots[s] EXCEPT !.is_available = 0]
                  ELSE o.slots[s] = slots[s]
            /\ o.bookings = bookings
            /\ o.reminders = reminders

\* day 2 has just been closed while a reservation on it is active and has its
\* reminder record; the slot of day 1 is still available
C17_Witness ==
    /\ ret.op = "close_day"
    /\ ret.val = <<2>>
    /\ \E b \in DOMAIN bookings :
          /\ bookings[b].status = "active"
          /\ slots[bookings[b].slot_id].date = 2
          /\ slots[bookings[b].slot_id].is_available = 0
          /\ \E r \in reminders : r.booking_id = b
    /\ \E s \in DOMAIN slots : slots[s].date = 1 /\ slots[s].is_available = 1


\* C18: addInventoryDay(date, times) appends one available slot of that date
\* for each entry that parses as HH:MM (here "10:00"), in order, skips the
\* entries that do not parse ("24:00", "10:60", "bad") without stopping the
\* batch, reports the number of slots created, and creates the slot also
\* when a slot of the same date and time exists.
C18_AddInventoryDay ==
    \A d \in Dates, parts \in Parts :
        LET o == admin_add_times_outcome(slots, d, parts)
            good == {i \in DOMAIN parts : parts[i] = <<"1", "0", ":", "0", "0">>}
        IN  /\ o.created = Cardinality(good)
            /\ Len(o.slots) = Len(slots) + Cardinality(good)
            /\ \A s \in DOMAIN slots : o.slots[s] = slots[s]
            /\ \A s \in DOMAIN o.slots \ DOMAIN slots :
                  o.slots[s] = [date |-> d, time |-> 10, is_available |-> 1]

\* a batch with an entry that does not parse has just created one slot, of a
\* date and time that the other slot already has
C18_Witness ==
    /\ ret.op = "admin_add_times"
    /\ ret.val = <<1>>
    /\ "ValueError" \in ret.errors
    /\ Len(slots) = 2
    /\ slots[1].date = slots[2].date
    /\ slots[1].time = slots[2].time
    /\ slots[2].is_available = 1


\* C19: in cancelByClient and cancelByAdmin, when remove_job raises (the
\* record names a job the scheduler no longer holds) the cancellation still
\* completes: the reservation is cancelled, its slot is available and its
\* reminder record is deleted.
C19_RemoveJobFailureKeepsCancel ==
    \A b \in DOMAIN bookings :
        (/\ bookings[b].status = "active"
         /\ \E r \in reminders :
               r.booking_id = b /\ \A j \in jobs : j.id # r.job_id)
        => \A o \in {user_cancel_booking_outcome(b),
                     admin_cancel_booking_outcome(b)} :
              /\ "JobLookupError" \in o.errors
              /\ o.res # NoneT
              /\ o.bookings[b].status = "cancelled"
              /\ o.slots[bookings[b].slot_id].is_available = 1
              /\ \A r \in o.reminders : r.booking_id # b

\* a reservation whose reminder had fired has just been cancelled by the
\* admin: remove_job raised and the cancellation went through
C19_Witness ==
    /\ ret.op = "admin_cancel_booking_do"
    /\ "JobLookupError" \in ret.errors
    /\ ret.val # NoneT
    /\ \E b \in DOMAIN bookings :
          /\ bookings[b].status = "cancelled"
          /\ slots[bookings[b].slot_id].is_available = 1
          /\ slots[bookings[b].slot_id].date * 24
               + slots[bookings[b].slot_id].time - 24 <= now
    /\ reminders = {}


\* C20: after a reserve or a cancel has committed, whichever notification
\* sends fail, the handler ends with the store as committed: the new
\* reservation is the only one added and is active with its slot taken and
\* its reminder record as written; the cancelled reservation stays cancelled
\* with its slot available and no reminder record.
C20_SendFailureKeepsCommit ==
    \A failed \in SUBSET Notices :
        /\ \A tg \in Clients, s \in SlotIds, n \in Names, p \in Phones :
              \A o \in confirm_booking_outcomes(tg, s, n, p) :
                 o.id # None
                 => LET r == after_sends(o, confirm_booking_sends(o.id, failed))
                    IN  /\ Len(r.store.bookings) = Len(bookings) + 1
                        /\ r.store.bookings[o.id].status = "active"
                        /\ r.store.slots[s].is_available = 0
                        /\ r.store.bookings = o.bookings
                        /\ r.store.slots = o.slots
                        /\ r.store.reminders = o.reminders
        /\ \A b \in DOMAIN bookings :
              bookings[b].status = "active"
              => LET u == user_cancel_booking_outcome(b)
                     a == admin_cancel_booking_outcome(b)
                 IN  \A r \in {after_sends(u, user_cancel_sends(u.res, failed)),
                               after_sends(a, admin_cancel_sends(a.res, failed))} :
                        /\ r.store.bookings[b].status = "cancelled"
                        /\ r.store.slots[bookings[b].slot_id].is_available = 1
                        /\ \A x \in r.store.reminders : x.booking_id # b
                        /\ Len(r.store.bookings) = Len(bookings)

\* a reservation with a reminder has just been confirmed although the send
\* to the client raised
C20_Witness ==
    /\ ret.op = "confirm_booking"
    /\ ret.val # NoneT
    /\ "client" \in ret.errors
    /\ bookings[ret.val[1]].status = "active"
    /\ slots[bookings[ret.val[1]].slot_id].is_available = 0
    /\ \E x \in reminders : x.booking_id = ret.val[1]


\* C12: once the reminder job of a reservation has fired, the reminder record
\* of that reservation is removed: after a step in which a due job runs, no
\* record with that job's id is left.
C12_FiredReminderRecordRemoved ==
    [][\A j \in jobs :
          (/\ j.run_date <= now
           /\ jobs' = jobs \ {j}
           /\ ret'.op = "send_reminder")
          => \A r \in reminders' : r.job_id # j.id]_vars


\* =================================================== claims under SpecConc
\* C1: under any interleaving of the steps of book_slot and cancel_booking,
\* each client has at most one reservation with status active.
C1_OneActivePerClient ==
    \A tg \in Clients :
        Cardinality(active_booking_ids(users, bookings, tg)) <= 1

\* C2: under any interleaving, each slot is referenced by at most one active
\* reservation (of several concurrent book_slot calls on one available slot
\* only one inserts a reservation).
C2_OneActivePerSlot ==
    \A s \in DOMAIN slots : Cardinality(active_on_slot(bookings, s)) <= 1

\* C4: a cancel that writes after another cancel of the same reservation has
\* committed, and after another client has reserved the freed slot, does not
\* flip the slot back to available.
C4_SecondCancelKeepsSlotTaken ==
    [][\A t \in Tasks :
          (/\ tasks[t].pc = "cb_write"
           /\ tasks'[t].pc = "cb_select_slot"
           /\ ~booking_is_active(bookings, tasks[t].arg)
           /\ \E b \in active_on_slot(bookings, tasks[t].slot_id) :
                 bookings[b].user_id # bookings[tasks[t].arg].user_id)
          => slots'[tasks[t].slot_id].is_available = 0]_vars

\* ============================================== claims under SpecLifecycle
\* C11: in every reachable state, also when a cancellation interleaves with
\* the confirm_booking that created the reservation, every reminder record
\* belongs to a reservation whose status is active.
C11_ReminderOnlyForActive ==
    \A r \in reminders : booking_is_active(bookings, r.booking_id)

\* restore_reminders has gone through all the rows it fetched and main() has
\* not yet started polling
reconciled == main.pc = "restore_reminders" /\ main.rows = {}

\* C13: after a restart and restore_reminders, wherever the process had
\* stopped, every active reservation whose fire time (slot datetime - 24h) is
\* in the future has exactly one live job, armed for the fire time stored in
\* its reminder record.
C13_ActiveFutureReservationArmed ==
    reconciled
    => \A b \in DOMAIN bookings :
          (/\ bookings[b].status = "active"
           /\ slots[bookings[b].slot_id].date * 24
                + slots[bookings[b].slot_id].time - 24 > now)
          => /\ Cardinality({j \in jobs : j.id = reminder_job_id(b)}) = 1
             /\ \A j \in jobs :
                   j.id = reminder_job_id(b)
                   => \E r \in reminders :
                         r.booking_id = b /\ r.run_at = j.run_date

C15_RestoreBeforeUpdates ==
    /\ main.pc # "start_polling"
       => /\ \A t \in Tasks : tasks[t] = IdleTask
          /\ ret.op \in {"stop", "main", "restore_reminders", "tick"}
    /\ main.pc = "start_polling" => main.passes = 1

\* a restart is in the middle of its pass: one row is done, one is pending
C15_Witness ==
    /\ main.pc = "restore_reminders"
    /\ main.rows # {}
    /\ ret.op = "restore_reminders"
    /\ main.passes = 0

\* ---------------------------------------------------------------------------
\* claims about the handlers' stored contact data

\* C21: after confirm_booking has booked the slot for a client, the client's
\* users row holds the name and the phone given in that confirmation, also
\* when the client had no users row before it.
C21_ContactStored ==
    \A tg \in Clients, slot_id \in SlotIds, name \in Names, phone \in Phones :
        \A o \in confirm_booking_outcomes(tg, slot_id, name, phone) :
            o.id # None
            => /\ user_ids(o.users, tg) # {}
               /\ \A u \in user_ids(o.users, tg) :
                      /\ o.users[u].name = name
                      /\ o.users[u].phone = phone

\* ---------------------------------------------------------------------------
\* get_available_days
\* A date is its day number, as in slot_datetime; day 0 is taken to be a
\* Monday. The dates are stored as ISO text (YYYY-MM-DD), whose text order is
\* the order of the dates, so ORDER BY date is the order of the day numbers.
MaxToday == 6
HorizonDays == 31
DaysPerWeek == 7
Saturday == 5

CalendarDates == 0..(MaxToday + HorizonDays + 1)

\* date.today()
today(clock) == clock \div HoursPerDay

\* date.weekday(): Monday is 0, Sunday is 6
weekday(d) == d % DaysPerWeek

\* SELECT DISTINCT date FROM slots WHERE is_available = 1
available_dates(S) == {S[s].date : s \in {x \in DOMAIN S : S[x].is_available = 1}}

RECURSIVE order_by_date(_)
order_by_date(D) ==
    IF D = {}
    THEN <<>>
    ELSE LET first == CHOOSE m \in D : \A e \in D : m <= e
         IN  <<first>> \o order_by_date(D \ {first})

\* faulty variant of get_available_days: the last day of the horizon is left out
get_available_days_short(S, clock) ==
    LET t == today(clock)
        limit_date == t + HorizonDays
        keep(d) == t <= d /\ d < limit_date /\ weekday(d) < Saturday
    IN  SelectSeq(order_by_date(available_dates(S)), keep)

get_available_days(S, clock) ==
    LET t == today(clock)
        limit_date == t + HorizonDays
        keep(d) == t <= d /\ d <= limit_date /\ weekday(d) < Saturday
    IN  SelectSeq(order_by_date(available_dates(S)), keep)

\* the slots tables the calendar is asked about: any dates, any flags
SlotTables ==
    UNION {[1..n -> [date : CalendarDates, time : Times, is_available : {0, 1}]]
           : n \in 0..MaxSlots}

InitCalendar ==
    /\ users = <<>>
    /\ slots \in SlotTables
    /\ bookings = <<>>
    /\ reminders = {}
    /\ jobs = {}
    /\ now \in {d * HoursPerDay + StartHour : d \in 0..MaxToday}
    /\ ret = Response("init", NoneT, "")
    /\ tasks = [t \in Tasks |-> IdleTask]
    /\ main = MainPolling
    /\ fsm = [c \in Clients |-> IdleConversation]
    /\ delivered = <<>>

\* start_booking asks for the days it offers
list_available_days ==
    /\ accepting_updates
    /\ ret' = Response("get_available_days", get_available_days(slots, now), "")
    /\ UNCHANGED <<users, slots, bookings, reminders, jobs, now, tasks, main, fsm, delivered>>

next_day ==
    /\ today(now) < MaxToday
    /\ now' = now + HoursPerDay
    /\ ret' = Response("tick", NoneT, "")
    /\ UNCHANGED <<users, slots, bookings, reminders, jobs, tasks, main, fsm, delivered>>

NextCalendar ==
    \/ list_available_days
    \/ next_day

SpecCalendar == InitCalendar /\ [][NextCalendar]_vars

admin_id == Min(Clients)

MessageTags == {"/start", "photo", "text"}

CallbackTags ==
    {"back_to_menu", "menu_prices", "menu_portfolio", "menu_book",
     "check_subscription", "book_day", "back_to_days", "book_time",
     "cancel_booking_flow", "confirm_booking", "menu_my_booking",
     "user_cancel_booking", "menu_admin", "admin_add_slots",
     "admin_close_day", "admin_view_day", "admin_cancel_booking",
     "admin_cancel_booking_select"}

Route(name, kind, tags, states) ==
    [name |-> name, kind |-> kind, tags |-> tags, states |-> states]

\* the handlers in the order of their registration, each with its filters
Routes ==
    <<Route("cmd_start", "message", {"/start"}, States),
      Route("get_photo_file_id", "message", {"photo"}, States),
      Route("back_to_menu", "callback", {"back_to_menu"}, States),
      Route("show_prices", "callback", {"menu_prices"}, States),
      Route("show_portfolio", "callback", {"menu_portfolio"}, States),
      Route("start_booking", "callback", {"menu_book"}, States),
      Route("recheck_subscription", "callback", {"check_subscription"}, States),
      Route("choose_day", "callback", {"book_day"}, {"choosing_date"}),
      Route("back_to_days", "callback", {"back_to_days"}, {"choosing_time"}),
      Route("choose_time", "callback", {"book_time"}, {"choosing_time"}),
      Route("enter_name", "message", MessageTags, {"entering_name"}),
      Route("enter_phone", "message", MessageTags, {"entering_phone"}),
      Route("cancel_booking_flow", "callback", {"cancel_booking_flow"},
            {"confirming"}),
      Route("confirm_booking", "callback", {"confirm_booking"}, {"confirming"}),
      Route("my_booking", "callback", {"menu_my_booking"}, States),
      Route("user_cancel_booking", "callback", {"user_cancel_booking"}, States),
      Route("admin_menu", "callback", {"menu_admin"}, States),
      Route("admin_add_slots", "callback", {"admin_add_slots"},
            {"choosing_action"}),
      Route("admin_add_day_date", "message", MessageTags, {"adding_day"}),
      Route("admin_add_times", "message", MessageTags, {"adding_time_for_day"}),
      Route("admin_close_day_start", "callback", {"admin_close_day"},
            {"choosing_action"}),
      Route("admin_close_day_finish", "message", MessageTags,
            {"closing_day_choose"}),
      Route("admin_view_day_start", "callback", {"admin_view_day"},
            {"choosing_action"}),
      Route("admin_view_day_show", "message", MessageTags,
            {"viewing_day_choose"}),
      Route("admin_cancel_booking_start", "callback", {"admin_cancel_booking"},
            {"choosing_action"}),
      Route("admin_cancel_booking_choose_day", "message", MessageTags,
            {"cancelling_booking_choose_day"}),
      Route("admin_cancel_booking_do", "callback",
            {"admin_cancel_booking_select"},
            {"cancelling_booking_choose_booking"})>>

\* faulty variant of route: the last registered handler whose filters pass
route_last_registered(state, kind, tag) ==
    LET matching == {i \in DOMAIN Routes :
                        /\ Routes[i].kind = kind
                        /\ tag \in Routes[i].tags
                        /\ state \in Routes[i].states}
    IN  IF matching = {}
        THEN "unhandled"
        ELSE Routes[CHOOSE i \in matching : \A k \in matching : k <= i].name

\* the handler that takes an update: the first registered one whose filters
\* all pass
route(state, kind, tag) ==
    LET matching == {i \in DOMAIN Routes :
                        /\ Routes[i].kind = kind
                        /\ tag \in Routes[i].tags
                        /\ state \in Routes[i].states}
    IN  IF matching = {} THEN "unhandled" ELSE Routes[Min(matching)].name

\* FSMContext
\* faulty variant of clear: the state is reset and the data is kept
clear_state_only(f) == [f EXCEPT !.state = NoState]

clear(f) == IdleConversation

set_state(f, state) == [f EXCEPT !.state = state]

\* faulty variant of update_data: the data is replaced, as set_data does
update_data_replaces(f, key, value) ==
    [f EXCEPT !.data = [NoData EXCEPT ![key] = value]]

update_data(f, key, value) == [f EXCEPT !.data[key] = value]

\* the queries the conversation handlers make
get_available_times(S, d) ==
    {s \in DOMAIN S : S[s].date = d /\ S[s].is_available = 1}

get_bookings_for_day(B, S, U, d) ==
    {b \in DOMAIN B :
        /\ B[b].status = "active"
        /\ B[b].slot_id \in DOMAIN S
        /\ B[b].user_id \in DOMAIN U
        /\ S[B[b].slot_id].date = d}

\* What the handlers with a database write leave of the conversation f of
\* client c.  sent tells whether the handler's answer outside try/except went
\* through; a date the admin typed is None when strptime rejects the text.

\* faulty variant of choose_time_conv: the name is not asked for
choose_time_conv_skips_name(f, slot_id) ==
    set_state(update_data(f, "chosen_slot_id", slot_id), "entering_phone")

choose_time_conv(f, slot_id) ==
    set_state(update_data(f, "chosen_slot_id", slot_id), "entering_name")

\* confirm_booking clears the state after its answer to the client, in each
\* of its branches
confirm_booking_conv(f, id, failed) ==
    IF confirm_booking_sends(id, failed).raised THEN f ELSE clear(f)

\* faulty variant of admin_menu_conv: the sender is not compared with
\* config.admin_id
admin_menu_conv_unchecked(c, f) == set_state(f, "choosing_action")

admin_menu_conv(c, f) ==
    IF c # admin_id THEN f ELSE set_state(f, "choosing_action")

\* faulty variant of admin_add_times_conv: the admin is left where the times
\* are asked for
admin_add_times_conv_stays(c, f, sent) == f

admin_add_times_conv(c, f, sent) ==
    IF c # admin_id
    THEN f
    ELSE IF f.data.admin_day = None /\ ~sent THEN f ELSE clear(f)

admin_close_day_finish_conv(c, f, d) ==
    IF c # admin_id \/ d = None THEN f ELSE clear(f)

admin_view_day_show_conv(c, f, d, sent) ==
    IF c # admin_id \/ d = None
    THEN f
    ELSE IF get_available_times(slots, d) = {} /\ ~sent THEN f ELSE clear(f)

\* admin_cancel_booking_do: when nothing was cancelled the alert comes before
\* state.clear(), else state.clear() comes before the answer
admin_cancel_booking_do_conv(c, f, res, sent) ==
    IF c # admin_id \/ (res = NoneT /\ ~sent) THEN f ELSE clear(f)

\* at most MaxOpen conversations are in progress at a time, over a store of
\* at most MaxDialogSlots slots and MaxDialogBookings bookings, about the
\* days 1..MaxDialogDay
MaxOpen == 1
MaxDialogSlots == 1
MaxDialogBookings == 1
MaxDialogDay == 1

DialogDates == 1..MaxDialogDay

\* the dates an admin's message can name: None when strptime rejects it
TypedDates == DialogDates \cup {None}

\* every conversation a handler can leave for client c, over its inputs:
\* whether the client is subscribed, whether an answer outside try/except
\* went through, the date, slot id, name or phone the update carries (a
\* message without text makes message.text.strip() raise in enter_name and
\* enter_phone, which leaves the conversation as it was)
handler_convs(name, c) ==
    LET f == fsm[c]
        admin_to(state) == IF c # admin_id THEN f ELSE set_state(f, state)
    IN  CASE name \in {"cmd_start", "back_to_menu", "cancel_booking_flow",
                       "my_booking"} -> {clear(f)}
          [] name = "start_booking" -> {f, set_state(f, "choosing_date")}
          [] name = "recheck_subscription" -> {f, clear(f)}
          [] name = "choose_day" ->
                {IF get_available_times(slots, d) = {}
                 THEN f
                 ELSE set_state(update_data(f, "chosen_date", d),
                                "choosing_time")
                    : d \in DialogDates}
          [] name = "back_to_days" ->
                {IF get_available_days(slots, now) = <<>>
                 THEN clear(f)
                 ELSE set_state(f, "choosing_date")}
          [] name = "choose_time" ->
                {choose_time_conv(f, slot_id) : slot_id \in SlotIds}
          [] name = "enter_name" ->
                {f} \cup {set_state(update_data(f, "name", n), "entering_phone")
                              : n \in Names}
          [] name = "enter_phone" ->
                {f} \cup {set_state(update_data(f, "phone", p), "confirming")
                              : p \in Phones}
          [] name = "confirm_booking" ->
                {confirm_booking_conv(f, x[1], x[2])
                    : x \in (IF f.data.chosen_slot_id = None
                             THEN {None}
                             ELSE {o.id : o \in confirm_booking_outcomes(
                                       c, f.data.chosen_slot_id, f.data.name,
                                       f.data.phone)})
                            \X {{}, {"client"}}}
          [] name = "admin_menu" -> {admin_menu_conv(c, f)}
          [] name = "admin_add_slots" -> {admin_to("adding_day")}
          [] name = "admin_add_day_date" ->
                {IF c # admin_id \/ d = None
                 THEN f
                 ELSE set_state(update_data(f, "admin_day", d),
                                "adding_time_for_day")
                    : d \in TypedDates}
          [] name = "admin_add_times" ->
                {admin_add_times_conv(c, f, sent) : sent \in BOOLEAN}
          [] name = "admin_close_day_start" -> {admin_to("closing_day_choose")}
          [] name = "admin_close_day_finish" ->
                {admin_close_day_finish_conv(c, f, d) : d \in TypedDates}
          [] name = "admin_view_day_start" -> {admin_to("viewing_day_choose")}
          [] name = "admin_view_day_show" ->
                {admin_view_day_show_conv(c, f, x[1], x[2])
                    : x \in TypedDates \X BOOLEAN}
          [] name = "admin_cancel_booking_start" ->
                {admin_to("cancelling_booking_choose_day")}
          [] name = "admin_cancel_booking_choose_day" ->
                {IF c # admin_id \/ d = None
                 THEN f
                 ELSE IF get_bookings_for_day(bookings, slots, users, d) = {}
                      THEN clear(f)
                      ELSE set_state(update_data(f, "admin_cancel_day", d),
                                     "cancelling_booking_choose_booking")
                    : d \in TypedDates}
          [] name = "admin_cancel_booking_do" ->
                {admin_cancel_booking_do_conv(
                     c, f, admin_cancel_booking_outcome(x[1]).res, x[2])
                    : x \in BookingIds \X BOOLEAN}
          [] OTHER -> {f}

\* what one update can make of the conversation of client c: the handler
\* that takes it and the conversation it leaves
conversation_steps(c) ==
    UNION {{[handler |-> route(fsm[c].state, u[1], u[2]), conv |-> g]
               : g \in handler_convs(route(fsm[c].state, u[1], u[2]), c)}
           : u \in ({"message"} \X MessageTags)
                      \cup ({"callback"} \X CallbackTags)}

\* ------------------------------------------------- handlers in conversation
turn(c) ==
    Cardinality({x \in Clients : fsm[x].state # NoState} \cup {c}) <= MaxOpen

\* a handler that answers and touches the conversation only, taking an
\* update the router gives it; the response names the client and the state
\* the update found the conversation in
answer(c, name) ==
    /\ accepting_updates
    /\ turn(c)
    /\ \E i \in DOMAIN Routes :
          /\ Routes[i].name = name
          /\ \E tag \in Routes[i].tags :
                route(fsm[c].state, Routes[i].kind, tag) = name
    /\ \E conv \in handler_convs(name, c) : fsm' = [fsm EXCEPT ![c] = conv]
    /\ ret' = Response(name, <<c, fsm[c].state>>, "")
    /\ UNCHANGED <<users, slots, bookings, reminders, jobs, now, tasks, main, delivered>>

\* confirm_booking with the slot, the name and the phone of the conversation
on_confirm_booking(c, failed) ==
    LET f == fsm[c]
    IN  /\ accepting_updates
        /\ turn(c)
        /\ route(f.state, "callback", "confirm_booking") = "confirm_booking"
        /\ IF f.data.chosen_slot_id = None
           THEN /\ fsm' = [fsm EXCEPT ![c] = confirm_booking_conv(f, None, failed)]
                /\ ret' = Response("confirm_booking", NoneT, "")
                /\ UNCHANGED <<users, slots, bookings, reminders, jobs>>
           ELSE \E o \in confirm_booking_outcomes(c, f.data.chosen_slot_id,
                                                  f.data.name, f.data.phone) :
                    /\ Len(o.bookings) <= MaxDialogBookings
                    /\ users' = o.users
                    /\ slots' = o.slots
                    /\ bookings' = o.bookings
                    /\ reminders' = o.reminders
                    /\ jobs' = o.jobs
                    /\ fsm' = [fsm EXCEPT
                                  ![c] = confirm_booking_conv(f, o.id, failed)]
                    /\ ret' = Response("confirm_booking",
                                       IF o.id = None THEN NoneT ELSE <<o.id>>,
                                       o.msg)
        /\ UNCHANGED <<now, tasks, main, delivered>>

\* admin_add_times with the day of the conversation
on_admin_add_times(c, parts, sent) ==
    LET f == fsm[c]
        writes == c = admin_id /\ f.data.admin_day # None
        o == admin_add_times_outcome(slots, f.data.admin_day, parts)
    IN  /\ accepting_updates
        /\ turn(c)
        /\ route(f.state, "message", "text") = "admin_add_times"
        /\ writes => Len(o.slots) <= MaxDialogSlots
        /\ slots' = IF writes THEN o.slots ELSE slots
        /\ fsm' = [fsm EXCEPT ![c] = admin_add_times_conv(c, f, sent)]
        /\ ret' = Response("admin_add_times", <<c, f.state>>, "")
        /\ UNCHANGED <<users, bookings, reminders, jobs, now, tasks, main, delivered>>

admin_close_day_finish(c, d) ==
    LET f == fsm[c]
        writes == c = admin_id /\ d # None
        o == close_day_outcome(slots, bookings, reminders, d)
    IN  /\ accepting_updates
        /\ turn(c)
        /\ route(f.state, "message", "text") = "admin_close_day_finish"
        /\ slots' = IF writes THEN o.slots ELSE slots
        /\ fsm' = [fsm EXCEPT ![c] = admin_close_day_finish_conv(c, f, d)]
        /\ ret' = Response("admin_close_day_finish", <<c, f.state>>, "")
        /\ UNCHANGED <<users, bookings, reminders, jobs, now, tasks, main, delivered>>

on_admin_cancel_booking_do(c, booking_id, failed) ==
    LET f == fsm[c]
        o == admin_cancel_booking_outcome(booking_id)
    IN  /\ accepting_updates
        /\ turn(c)
        /\ route(f.state, "callback", "admin_cancel_booking_select")
               = "admin_cancel_booking_do"
        /\ IF c # admin_id
           THEN /\ ret' = Response("admin_cancel_booking_do", NoneT, "")
                /\ UNCHANGED <<slots, bookings, reminders, jobs, fsm, delivered>>
           ELSE /\ slots' = o.slots
                /\ bookings' = o.bookings
                /\ reminders' = o.reminders
                /\ jobs' = o.jobs
                /\ fsm' = [fsm EXCEPT
                              ![c] = admin_cancel_booking_do_conv(
                                         c, f, o.res, "admin" \notin failed)]
                /\ ret' = Response("admin_cancel_booking_do", o.res, o.msg)
        /\ UNCHANGED <<users, now, tasks, main, delivered>>

\* one disjunct for each handler of the router; the admin's list of times
\* holds at most MaxDialogSlots entries
NextDialog ==
    \/ \E c \in Clients : answer(c, "cmd_start")
    \/ \E c \in Clients : answer(c, "get_photo_file_id")
    \/ \E c \in Clients : answer(c, "back_to_menu")
    \/ \E c \in Clients : answer(c, "start_booking")
    \/ \E c \in Clients : answer(c, "recheck_subscription")
    \/ \E c \in Clients : answer(c, "choose_day")
    \/ \E c \in Clients : answer(c, "back_to_days")
    \/ \E c \in Clients : answer(c, "choose_time")
    \/ \E c \in Clients : answer(c, "enter_name")
    \/ \E c \in Clients : answer(c, "enter_phone")
    \/ \E c \in Clients : answer(c, "cancel_booking_flow")
    \/ \E c \in Clients, failed \in {{}, {"client"}} : on_confirm_booking(c, failed)
    \/ \E c \in Clients : answer(c, "my_booking")
    \/ \E booking_id \in BookingIds : user_cancel_booking(booking_id)
    \/ \E c \in Clients : answer(c, "admin_menu")
    \/ \E c \in Clients : answer(c, "admin_add_slots")
    \/ \E c \in Clients : answer(c, "admin_add_day_date")
    \/ \E c \in Clients, sent \in BOOLEAN :
          \E parts \in {p \in Parts : Len(p) <= MaxDialogSlots} :
              on_admin_add_times(c, parts, sent)
    \/ \E c \in Clients : answer(c, "admin_close_day_start")
    \/ \E c \in Clients, d \in TypedDates : admin_close_day_finish(c, d)
    \/ \E c \in Clients : answer(c, "admin_view_day_start")
    \/ \E c \in Clients : answer(c, "admin_view_day_show")
    \/ \E c \in Clients : answer(c, "admin_cancel_booking_start")
    \/ \E c \in Clients : answer(c, "admin_cancel_booking_choose_day")
    \/ \E c \in Clients, booking_id \in BookingIds, failed \in {{}, {"admin"}} :
           on_admin_cancel_booking_do(c, booking_id, failed)

SpecDialog == Init /\ [][NextDialog]_vars

\* ---------------------------------------------------------------------------
\* claims about the conversations, under SpecDialog

\* C23: a conversation is in confirming only after it went, since it last had
\* no state, through choosing_date, choosing_time, entering_name and
\* entering_phone in this order (each state's handler has left its entry in
\* the data), and no handler moves a conversation into choosing_time,
\* entering_name, entering_phone or confirming from another state than the
\* one just before it.
C23_BookingStatesInOrder ==
    LET predecessor(state) ==
            CASE state = "choosing_time" -> "choosing_date"
              [] state = "entering_name" -> "choosing_time"
              [] state = "entering_phone" -> "entering_name"
              [] state = "confirming" -> "entering_phone"
        collected(f) ==
            /\ f.state \in BookingStates \ {"choosing_date"}
               => f.data.chosen_date # None
            /\ f.state \in {"entering_name", "entering_phone", "confirming"}
               => f.data.chosen_slot_id # None
            /\ f.state \in {"entering_phone", "confirming"}
               => f.data.name # NULL
            /\ f.state = "confirming" => f.data.phone # NULL
    IN  \A c \in Clients :
            /\ collected(fsm[c])
            /\ \A st \in conversation_steps(c) :
                  /\ st.conv.state \in BookingStates \ {"choosing_date"}
                  /\ st.conv.state # fsm[c].state
                  => fsm[c].state = predecessor(st.conv.state)

\* a client other than the admin has just sent the phone and is asked to
\* confirm, with date, slot, name and phone collected
C23_Witness ==
    \E c \in Clients \ {admin_id} :
        /\ ret.op = "enter_phone"
        /\ ret.val = <<c, "entering_phone">>
        /\ fsm[c].state = "confirming"
        /\ fsm[c].data.chosen_date \in DialogDates
        /\ fsm[c].data.chosen_slot_id \in DOMAIN slots
        /\ fsm[c].data.name \in Names
        /\ fsm[c].data.phone \in Phones

\* C24: in every booking state and every admin state the /start command is
\* taken by cmd_start and the back_to_menu callback by back_to_menu, and each
\* leaves the conversation without a state.
C24_CancelFromEveryState ==
    /\ \A state \in BookingStates \cup AdminStates :
          /\ route(state, "message", "/start") = "cmd_start"
          /\ route(state, "callback", "back_to_menu") = "back_to_menu"
    /\ \A c \in Clients :
          \A st \in conversation_steps(c) :
              st.handler \in {"cmd_start", "back_to_menu", "cancel_booking_flow"}
              => st.conv.state = NoState

\* /start has just taken the admin out of the choice of a booking to cancel
C24_Witness ==
    /\ ret.op = "cmd_start"
    /\ ret.val = <<admin_id, "cancelling_booking_choose_booking">>
    /\ fsm[admin_id].state = NoState
    /\ \E b \in DOMAIN bookings : bookings[b].status = "active"

C28_IdleHasNoData ==
    \A c \in Clients :
        /\ fsm[c].state = NoState => fsm[c].data = NoData
        /\ \A st \in conversation_steps(c) :
              st.conv.state = NoState => st.conv.data = NoData

\* confirm_booking has just refused a booking (the slot is taken) and the
\* conversation is without state and data
C28_Witness ==
    /\ ret.op = "confirm_booking"
    /\ ret.msg = MsgBookFailed
    /\ \A c \in Clients : fsm[c] = IdleConversation
    /\ \E b \in DOMAIN bookings : bookings[b].status = "active"

\* ---------------------------------------------------------------------------
\* claims about the bookings and reminders tables

\* C26: in every step a bookings row stays in the table, its user_id and
\* slot_id stay what they were, and its status either stays or goes from
\* active to cancelled: a cancelled row is never active again.
C26_BookingsAppendOnly ==
    [][/\ Len(bookings') >= Len(bookings)
       /\ \A b \in DOMAIN bookings :
             /\ bookings'[b].user_id = bookings[b].user_id
             /\ bookings'[b].slot_id = bookings[b].slot_id
             /\ bookings'[b].status \in {"active", "cancelled"}
             /\ bookings[b].status = "cancelled"
                => bookings'[b].status = "cancelled"]_vars

\* a client has cancelled and then reserved the same slot again: the
\* cancelled row is kept and the new reservation is a row of its own
C26_Witness ==
    /\ ret.op = "confirm_booking"
    /\ Len(bookings) = 2
    /\ bookings[1].status = "cancelled"
    /\ bookings[2].status = "active"
    /\ bookings[2].user_id = bookings[1].user_id
    /\ bookings[2].slot_id = bookings[1].slot_id

\* the rows of reminders and the jobs of the job store made for a booking
reminders_of(R, booking_id) == {r \in R : r.booking_id = booking_id}

jobs_of(J, booking_id) == {j \in J : j.id[2] = booking_id}

\* C27: in every reachable state each booking has at most one row in
\* reminders and at most one job in the job store, and schedule_reminder
\* called again for the booking (as restore_reminders does) leaves one row
\* and one job for it, not two.
C27_OneReminderPerBooking ==
    \A b \in DOMAIN bookings :
        /\ Cardinality(reminders_of(reminders, b)) <= 1
        /\ Cardinality(jobs_of(jobs, b)) <= 1
        /\ bookings[b].user_id \in DOMAIN users
           => LET slot == slots[bookings[b].slot_id]
                  again == schedule_reminder(reminders, jobs, now, b,
                               users[bookings[b].user_id].tg_id,
                               slot.date, slot.time)
              IN  /\ Cardinality(reminders_of(again.reminders, b)) <= 1
                  /\ Cardinality(jobs_of(again.jobs, b)) <= 1
                  /\ reminders_of(reminders, b) # {}
                     => again.reminders = reminders
                  /\ \A other \in DOMAIN bookings \ {b} :
                        /\ reminders_of(again.reminders, other)
                              = reminders_of(reminders, other)
                        /\ jobs_of(again.jobs, other) = jobs_of(jobs, other)

\* after a restart restore_reminders has armed the job of a booking again,
\* later than the booking was made, and the booking has its one row and its
\* one job
C27_Witness ==
    /\ ret.op = "restore_reminders"
    /\ ret.msg = "armed"
    /\ now > StartHour
    /\ \E b \in DOMAIN bookings :
          /\ Cardinality(reminders_of(reminders, b)) = 1
          /\ Cardinality(jobs_of(jobs, b)) = 1

\* C29: when a statement of restore_reminders raises for one row, the row is
\* deleted from reminders and the pass goes on with the rows that are left.
C29_BadRecordDropped ==
    ret.op = "restore_reminders" /\ ret.msg = "raised"
    => /\ reminders_of(reminders, ret.val[1]) = {}
       /\ main.pc = "restore_reminders"

\* C30: user_cancel_booking asked by a client with the id of another client's
\* active booking changes neither that booking, nor its slot, nor its
\* reminders row.  (The handler reads callback.from_user for the keyboard and
\* the texts only: its outcome is the same for every requester tg.)
C30_CancelOnlyOwnBooking ==
    \A tg \in Clients, b \in DOMAIN bookings :
        /\ bookings[b].status = "active"
        /\ bookings[b].user_id \in DOMAIN users
        /\ users[bookings[b].user_id].tg_id # tg
        => LET o == user_cancel_booking_outcome(b)
           IN  /\ o.bookings[b] = bookings[b]
               /\ o.slots[bookings[b].slot_id] = slots[bookings[b].slot_id]
               /\ reminders_of(o.reminders, b) = reminders_of(reminders, b)


\* ---------------------------------------------------------------------------
\* claims about who may do what, under SpecDialog

\* C31: no step leaves the conversation of a client other than the admin in
\* an admin state, every admin handler leaves the conversation of such a
\* client as it found it, and a step of admin_add_times that adds a slot, of
\* admin_close_day_finish that closes a slot, or of admin_cancel_booking_do
\* that cancels a booking handles an update sent by the admin from the state
\* of that operation.
C31_AdminOnly ==
    [][/\ \A c \in Clients \ {admin_id} :
             /\ fsm'[c].state \notin AdminStates
             /\ \A i \in DOMAIN Routes :
                   Routes[i].states \subseteq AdminStates
                   \/ Routes[i].name = "admin_menu"
                   => handler_convs(Routes[i].name, c) = {fsm[c]}
       /\ ret'.op = "admin_add_times" /\ Len(slots') > Len(slots)
          => ret'.val = <<admin_id, "adding_time_for_day">>
       /\ ret'.op = "admin_close_day_finish" /\ slots' # slots
          => ret'.val = <<admin_id, "closing_day_choose">>
       /\ /\ ret'.op = "admin_cancel_booking_do"
          /\ \E b \in DOMAIN bookings : bookings'[b].status # bookings[b].status
          => fsm[admin_id].state = "cancelling_booking_choose_booking"]_vars

\* a client other than the admin has just asked for the admin panel and is
\* left without a state, over a store where the admin has added a slot
C31_Witness ==
    \E c \in Clients \ {admin_id} :
        /\ ret.op = "admin_menu"
        /\ ret.val = <<c, NoState>>
        /\ fsm[c] = IdleConversation
        /\ Len(slots) > 0

\* ---------------------------------------------------------------------------
\* claims about closed days, under Spec

\* C32: when close_day(d) has just been done, a confirm_booking or a
\* cancellation by the client or by the admin that comes next leaves every
\* slot of date d unavailable.
C32_ClosedDayStaysClosed ==
    [][/\ ret.op = "close_day"
       /\ ret'.op \in {"confirm_booking", "user_cancel_booking",
                       "admin_cancel_booking_do"}
       => \A s \in DOMAIN slots :
             slots[s].date = ret.val[1] => slots'[s].is_available = 0]_vars

\* ---------------------------------------------------------------------------
\* claims about the delivery of reminders, under SpecLifecycle

\* C33: over confirmations, cancellations, firings of jobs, stops and starts
\* of the process with restore_reminders, the reminder of a booking is sent
\* at most once, and only for a booking of the table.
C33_ReminderAtMostOnce ==
    \A b \in DOMAIN delivered :
        /\ b \in DOMAIN bookings
        /\ delivered[b] <= 1

\* after the reminder of a booking was sent the process was stopped and
\* started, and restore_reminders has just dropped the record of that
\* reminder without arming a job
C33_Witness ==
    /\ ret.op = "restore_reminders"
    /\ ret.msg = "dropped"
    /\ ret.val[1] \in DOMAIN delivered
    /\ delivered[ret.val[1]] = 1
    /\ bookings[ret.val[1]].status = "active"
    /\ jobs = {}

\* ---------------------------------------------------------------------------
\* claims about the commits, under SpecCommit

\* C34: in every step of the durable store, a slot turns unavailable only
\* together with the insert of an active booking of it, a booking is
\* inserted only with its slot unavailable afterwards, a booking turns
\* cancelled only with its slot available afterwards, and a slot turns
\* available only in a step that leaves a booking of it cancelled; a stop
\* of the process changes neither table, and leaves no unavailable slot
\* without an active booking and no slot unavailable whose bookings are all
\* cancelled.
C34_CommittedTogether ==
    [][/\ \A s \in DOMAIN slots :
             /\ slots[s].is_available = 1 /\ slots'[s].is_available = 0
                => /\ Len(bookings') = Len(bookings) + 1
                   /\ bookings'[Len(bookings')].slot_id = s
                   /\ bookings'[Len(bookings')].status = "active"
             /\ slots[s].is_available = 0 /\ slots'[s].is_available = 1
                => \E b \in DOMAIN bookings :
                      /\ bookings[b].slot_id = s
                      /\ bookings'[b].status = "cancelled"
       /\ Len(bookings') > Len(bookings)
          => slots'[bookings'[Len(bookings')].slot_id].is_available = 0
       /\ \A b \in DOMAIN bookings :
             bookings[b].status = "active" /\ bookings'[b].status = "cancelled"
             => slots'[bookings[b].slot_id].is_available = 1
       /\ ret'.op = "stop"
          => /\ slots' = slots
             /\ bookings' = bookings
             /\ \A s \in DOMAIN slots' :
                   slots'[s].is_available = 0
                   => active_on_slot(bookings', s) # {}]_vars

\* the process was stopped when a call of book_slot had executed its UPDATE
\* and not yet its INSERT, beside a call of cancel_booking about to write:
\* the slot is still available and the booking still active
C34_Witness ==
    /\ ret.op = "stop"
    /\ \E t \in Tasks : ret.val[t] = "bs_insert"
    /\ \E t \in Tasks : ret.val[t] = "cb_write"
    /\ \E b \in DOMAIN bookings : bookings[b].status = "active"
    /\ \E s \in DOMAIN slots : slots[s].is_available = 1

\* ---------------------------------------------------------------------------
\* claims about the end of a booking conversation, under SpecDialog

\* C35: every step of confirm_booking, taken in confirming, leaves the
\* conversation of its client without a state, whether the booking was made
\* or refused and whether or not the answer to the client could be sent.
C35_ConfirmLeavesIdle ==
    [][\A c \in Clients :
          (\E failed \in {{}, {"client"}} : on_confirm_booking(c, failed))
          => fsm'[c].state = NoState]_vars

\* ---------------------------------------------------------------------------
\* claims about booking again after a cancellation, under Spec

\* C36: when an active booking is cancelled, by the client or by the admin,
\* then in the store the cancellation leaves book_slot succeeds for the
\* client of that booking on every available slot, and succeeds on the slot
\* of that booking for every client without an active booking; the booking
\* made is a new active row of that client on that slot.
C36_CancelledNeverBlocks ==
    \A b \in DOMAIN bookings :
        bookings[b].status = "active"
        => \A o \in {user_cancel_booking_outcome(b),
                     admin_cancel_booking_outcome(b)} :
              LET owner == users[bookings[b].user_id].tg_id
                  freed == bookings[b].slot_id
                  made(tg, s) ==
                      LET bk == book_slot(users, o.slots, o.bookings, tg, s)
                      IN  /\ bk.ids = {Len(bookings) + 1}
                          /\ bk.bookings[Len(bookings) + 1].status = "active"
                          /\ bk.bookings[Len(bookings) + 1].slot_id = s
                          /\ bk.users[bk.bookings[Len(bookings) + 1].user_id]
                                 .tg_id = tg
                          /\ bk.slots[s].is_available = 0
              IN  /\ o.bookings[b].status = "cancelled"
                  /\ \A s \in DOMAIN o.slots :
                        o.slots[s].is_available = 1 => made(owner, s)
                  /\ \A tg \in Clients :
                        active_booking_ids(users, o.bookings, tg) = {}
                        => made(tg, freed)

\* a client whose booking was cancelled has just booked the same slot again
C36_Witness ==
    /\ ret.op = "confirm_booking"
    /\ ret.val = <<2>>
    /\ bookings[1].status = "cancelled"
    /\ bookings[2].status = "active"
    /\ bookings[2].user_id = bookings[1].user_id
    /\ bookings[2].slot_id = bookings[1].slot_id

\* C37: a conversation in confirming holds a chosen slot id, a name and a
\* phone, and whenever the router gives the confirm_booking callback to
\* confirm_booking the chosen slot id of the conversation is set: the branch
\* of confirm_booking for a missing slot id is never taken.
C37_ConfirmingHasPayload ==
    \A c \in Clients :
        /\ fsm[c].state = "confirming"
           => /\ fsm[c].data.chosen_slot_id \in Nat \ {None}
              /\ fsm[c].data.name \in Names
              /\ fsm[c].data.phone \in Phones
        /\ route(fsm[c].state, "callback", "confirm_booking") = "confirm_booking"
           => fsm[c].data.chosen_slot_id # None
        /\ ret.op = "confirm_booking" => ret.msg # ""

\* the phone has just been sent and the conversation is in confirming with
\* the id of an available slot, a name and a phone
C37_Witness ==
    \E c \in Clients :
        /\ ret.op = "enter_phone"
        /\ fsm[c].state = "confirming"
        /\ fsm[c].data.chosen_slot_id \in DOMAIN slots
        /\ slots[fsm[c].data.chosen_slot_id].is_available = 1
        /\ fsm[c].data.name \in Names
        /\ fsm[c].data.phone \in Phones

\* ---------------------------------------------------------------------------
\* claims about the jobs and their records, under SpecLifecycle

\* C38: when no handler is running and restore_reminders is not in progress,
\* every job of the scheduler has a row in reminders with the job's id, the
\* job's booking and the job's run date.
C38_EveryJobHasRecord ==
    (/\ \A t \in Tasks : task_free(t)
     /\ main.pc # "restore_reminders")
    => \A j \in jobs :
          \E r \in reminders :
              /\ r.job_id = j.id
              /\ r.booking_id = j.id[2]
              /\ r.run_at = j.run_date

\* no handler is running, a booking has been cancelled and its job removed,
\* and the job of another booking is armed, with its record
C38_Witness ==
    /\ \A t \in Tasks : task_free(t)
    /\ main.pc = "start_polling"
    /\ \E b \in DOMAIN bookings :
          /\ bookings[b].status = "cancelled"
          /\ jobs_of(jobs, b) = {}
          /\ reminders_of(reminders, b) = {}
    /\ \E j \in jobs :
          /\ bookings[j.id[2]].status = "active"
          /\ \E r \in reminders : r.job_id = j.id /\ r.run_at = j.run_date

====
